---- MODULE Spec2Model ----
(***************************************************************************)
(* A state-machine model of the CapacityReport processing core             *)
(* (src/app/processor.py, src/app/database.py): one run of                 *)
(* DataProcessor.process with its four stages, the per-item error          *)
(* handling of every stage, the worker pool of the spreadsheet stage, the  *)
(* bulk loader with its fast path and its fallback, and the script runner. *)
(***************************************************************************)
EXTENDS Integers, Sequences, FiniteSets, TLC

(***************************************************************************)
(* Bounds of the model.                                                    *)
(***************************************************************************)
\* Items (archives, workbooks, delimited files, script statements) that one
\* run discovers in total, plus the failures that abort a stage.
MaxItems == 2
\* Tagged directories that one run discovers.
MaxDirs == 2
\* Child directories that stand in as data directories when none is tagged.
MaxChildren == 1
\* Workbooks whose tasks log while the logger is watched step by step.
LogBooks == 2
\* Cells of a column handed to a coercion.
MaxCells == 2
\* Matched columns of a file in the conversion loop.
MaxCols == 2
\* Archives in the working tree before the run.
MaxZips == 2
\* Characters of a script text handed to the statement parser.
MaxChars == 4
\* Delimited files directly in one directory of a working tree.
MaxPerDir == 2
\* Upload sessions a server sees.
MaxSessions == 2
\* Background threads a server starts.
MaxThreads == 2
\* Files one upload session reports in its history record.
MaxUploads == 2

(***************************************************************************)
(* Program constants.                                                      *)
(***************************************************************************)
\* DataProcessor.MAX_WORKERS = min(max(cpu_count, 1), 8) on a two-core host.
MAX_WORKERS == 2
\* Progress is reported every tenth file of a directory.
ProgressEvery == 10
\* The threshold of _process_csv_file_fast: len(col_mapping) <= 3 is too few.
MinMatch == 3

\* The order in which process() calls the stages.
StageOrder == <<"unzip", "convert", "load", "script">>

\* The sheets of every workbook of the model, in workbook order, and the
\* configured exclusion set (config.sheet_filter).
sheet_names == <<"s1", "s2", "s3">>
sheet_filter == {"s2"}

\* _find_data_directories: the directory names that carry a tag, and the
\* names among them that the candidates of the model are drawn from.
target_names == {"4G", "5G", "4g", "5g"}
DirNames == {"4G", "5g"}

\* str.upper on a directory name.
upper(name) ==
    CASE name = "4g" -> "4G"
      [] name = "5g" -> "5G"
      [] OTHER -> name

\* The immediate child directories of a working tree without a tagged
\* directory, in the order iterdir yields them.
ChildNames == <<"X", "Y", "Z">>

\* The canonical fields (config.extract_fields) and the sets of them that
\* the headers of a delimited file of the model match: exactly MinMatch of
\* them, one more, or all.
Fields == {"f1", "f2", "f3", "f4", "f5"}
Headers == {{"f1", "f2", "f3"}, {"f1", "f2", "f3", "f4"}, Fields}

VARIABLES
    pc,              \* position of the thread that runs process()
    budget,          \* items and fatal failures the run may still meet (bound)
    logs,            \* ProcessLogger.logs: the entries, in emission order
    results,         \* DataProcessor.results: a dict, key -> value
    exc,             \* message of the exception caught by process(), or "none"
    stageTrace,      \* history: <<stage, "enter" | "return" | "raise">>
    zip_files,       \* _unzip_files: number of discovered archives
    zip_i,           \* _unzip_files: archives attempted so far
    zip_count,       \* _unzip_files: archives extracted
    tasks,           \* the pool's tasks, one per workbook
    total_processed, \* _process_excel_files_parallel: sum of the results
    written,         \* output files on disk: <<workbook, sheet>>
    found_dirs,      \* _find_data_directories: names of the tagged directories found
    data_dirs,       \* the dict table name -> directory, in insertion order
    dir_i,           \* index of the directory being processed (1-based)
    csv_files,       \* number of delimited files of the current directory
    csv_i,           \* files of the current directory attempted so far
    table_created,   \* the caller's table_created flag of the directory
    csv_file,        \* the delimited file of the current iteration
    _load_data_checked,   \* DataProcessor._load_data_checked
    _load_data_supported, \* DataProcessor._load_data_supported: "None", "True", "False"
    temp_dir,        \* whether <work_dir>/.temp exists
    temp_files,      \* number of temp files inside <work_dir>/.temp
    conns,           \* open database connections, by owner
    _engine,         \* DatabaseManager._engine: "None" or "pool"
    dbTrace,         \* history: <<operation, argument, outcome>> sent to the database
    tables,          \* the database: table name -> its columns and its rows
    valid_sqls,      \* _execute_sql_script: number of statements
    sql_i,           \* statements attempted so far
    executed_count,  \* statements that ran without an error
    found,           \* history: items discovered so far, by stage
    attempts,        \* history: <<stage, item, outcome>> of every item attempted
    log_file,        \* ProcessLogger.log_file: the lines of the log file, in order
    callback,        \* the entries the observer callback was called with, in order
    log_call,        \* per thread: the step of its call of ProcessLogger.log
    book,            \* per workbook of the logging threads: the state of its task
    series,          \* a column of raw cells handed to a coercion
    col_type,        \* the declared type of that column
    replace_pads,    \* whether Series.replace(x, None) pads instead of nulling
    coerced,          \* the column the coercion returned
    column_types,    \* the declared types of the matched columns of a file, in order
    col_k,           \* columns of the file handled by the conversion loop so far
    df_result,       \* per column: "raw", "converted", "unmodified" or "raised"
    csv_state,        \* the file of these columns: "none", "converting", "loaded", "failed"
    tree_zips,       \* the archives present in the working tree, by path
    holds_zip,       \* the archives that hold another archive
    zip_list,        \* _unzip_files: the list rglob gave, in order
    zip_k,           \* archives of zip_list attempted so far
    tried,           \* per archive: the encodings tried on it, in order
    zip_status,      \* per archive: "none", "extracted" or "failed"
    unzip_state,      \* the unzip stage over these archives: "none", "scan", "loop", "over"
    sql_text,        \* the text of a script handed to parse_sql_script
    parsed_sqls,     \* the statements parse_sql_script returned
    origins,         \* history: per returned character its position in sql_text, 0 for a joining newline
    sql_state,        \* "none", "text" before the call, "parsed" after it
    tree_dirs,       \* the tag directories of a working tree, by path
    tree_files,      \* per directory: the number of delimited files directly in it
    scan_dirs,       \* the data directories found in the tree: table and path
    scan_k,          \* data directories scanned so far
    scanned,         \* per data directory: the files _scan_files listed for it
    scan_state,       \* "none", "find", "scan" or "over"
    global_task_lock,\* the global task lock of the API layer: locked, task_id, stage
    upload_sessions, \* the upload sessions the server holds in memory
    upload_calls,    \* per session: the upload request suspended at the read of a file, "none", "new" or "append"
    record_status,   \* per session: the status of its history record, "absent" when there is none
    threads,          \* the background threads: the task, the statement the thread is at, the status it reports
    history_file,    \* the records of history.json, per id; status "absent" when there is none
    history_calls,   \* per caller: the HistoryManager call in progress and the records it loaded
    settled,         \* per id: the status the last returned thread update wrote, "none" once superseded
    made             \* the ids a returned create has added and no delete or clear has removed since

unzipVars == <<zip_files, zip_i, zip_count>>
excelVars == <<tasks, total_processed, written>>
loadVars == <<found_dirs, data_dirs, dir_i, csv_files, csv_i, table_created,
              csv_file>>
fastVars == <<_load_data_checked, _load_data_supported, temp_dir, temp_files>>
dbVars == <<conns, _engine, dbTrace, tables>>
sqlVars == <<valid_sqls, sql_i, executed_count>>
logVars == <<log_file, callback, log_call, book>>
coerceVars == <<series, col_type, replace_pads, coerced>>
columnVars == <<column_types, col_k, df_result, csv_state>>
archiveVars == <<tree_zips, holds_zip, zip_list, zip_k, tried, zip_status,
                 unzip_state>>
scriptVars == <<sql_text, parsed_sqls, origins, sql_state>>
treeVars == <<tree_dirs, tree_files, scan_dirs, scan_k, scanned, scan_state>>
apiVars == <<global_task_lock, upload_sessions, upload_calls, record_status,
             threads>>
historyVars == <<history_file, history_calls, settled, made>>
auxVars == <<logVars, coerceVars, columnVars, archiveVars, scriptVars,
             treeVars, apiVars, historyVars>>
\* Everything of a run of process() but the in-memory log list.
runVars == <<pc, budget, results, exc, stageTrace, unzipVars, excelVars,
             loadVars, fastVars, dbVars, sqlVars, found, attempts>>
logRest == <<runVars, coerceVars, columnVars, archiveVars, scriptVars,
             treeVars, apiVars, historyVars>>
coerceRest == <<logs, runVars, logVars, columnVars, archiveVars, scriptVars,
                treeVars, apiVars, historyVars>>
columnRest == <<logs, runVars, logVars, coerceVars, archiveVars, scriptVars,
                treeVars, apiVars, historyVars>>
archiveRest == <<logs, runVars, logVars, coerceVars, columnVars, scriptVars,
                 treeVars, apiVars, historyVars>>
scriptRest == <<logs, runVars, logVars, coerceVars, columnVars, archiveVars,
                treeVars, apiVars, historyVars>>
treeRest == <<logs, runVars, logVars, coerceVars, columnVars, archiveVars,
              scriptVars, apiVars, historyVars>>
apiRest == <<logs, runVars, logVars, coerceVars, columnVars, archiveVars,
             scriptVars, treeVars, historyVars>>
historyRest == <<logs, runVars, logVars, coerceVars, columnVars, archiveVars,
                 scriptVars, treeVars, apiVars>>
vars == <<logs, runVars, auxVars>>

(***************************************************************************)
(* ProcessLogger.log: the entry <<level, message, argument>> is appended   *)
(* to the in-memory list.                                                  *)
(***************************************************************************)
log(l, level, message, arg) == Append(l, <<level, message, arg>>)

\* DatabaseManager.get_connection / get_fast_connection: entering the
\* context manager opens a connection owned by `owner`.
connect(c, owner) == c \cup {owner}

\* The finally clause of both context managers: conn.close(), on a normal
\* exit and on an exception alike.
conn_close(c, owner) == c \ {owner}

(***************************************************************************)
(* process(): the stage that follows stage s in the body of the try, or    *)
(* "success" after the last one.                                           *)
(***************************************************************************)
StageIndex(s) == CHOOSE i \in 1..Len(StageOrder) : StageOrder[i] = s

\* Mutant of process_next: the load stage is called before the spreadsheet stage.
process_next_swapped(s) ==
    CASE s = "unzip" -> "load"
      [] s = "load" -> "convert"
      [] s = "convert" -> "script"
      [] OTHER -> "success"

process_next(s) ==
    IF StageIndex(s) < Len(StageOrder) THEN StageOrder[StageIndex(s) + 1]
    ELSE "success"

\* A stage begins: the thread is at the stage's call in process().
Enter(s) == stageTrace' = Append(stageTrace, <<s, "enter">>)

\* A stage returns normally: process() goes on with the next call.
Return(s) ==
    /\ stageTrace' = Append(stageTrace, <<s, "return">>)
    /\ pc' = process_next(s)
    /\ exc' = exc

\* Mutant of Raise: the exception is swallowed and process() goes on with the
\* next stage.
Raise_swallowed(s, message) ==
    /\ budget > 0
    /\ budget' = budget - 1
    /\ stageTrace' = Append(stageTrace, <<s, "raise">>)
    /\ pc' = process_next(s)
    /\ exc' = message

\* An exception leaves stage s: the try of process() is left for its except
\* clause, with the message of the exception.  Such a failure of the
\* environment counts against the bound of the run.
Raise(s, message) ==
    /\ budget > 0
    /\ budget' = budget - 1
    /\ stageTrace' = Append(stageTrace, <<s, "raise">>)
    /\ pc' = "except"
    /\ exc' = message

\* The discovery of stage s yields n items.
Found(s, n) == found' = [found EXCEPT ![s] = @ + n]

\* Item i of stage s has been attempted, with the outcome o.
Attempt(s, i, o) == attempts' = Append(attempts, <<s, i, o>>)

\* A delimited file of which nothing has been read.
Unread == [cols |-> {}, name_kpis |-> FALSE, dir_kpis |-> FALSE]

\* The rows of a table are named by the file they come from, <<directory,
\* file>>; OldRows names rows that an earlier run inserted.
OldRows == <<0, 0>>

\* The database before the run: an earlier run left the table 4G_UD.
OldTables == [t \in {"4G_UD"} |-> [columns |-> Fields, rows |-> {OldRows}]]

InitRun ==
    /\ pc = "idle"
    /\ budget = MaxItems
    /\ logs = <<>>
    /\ results = [k \in {} |-> ""]
    /\ exc = "none"
    /\ stageTrace = <<>>
    /\ zip_files = 0 /\ zip_i = 0 /\ zip_count = 0
    /\ tasks = <<>> /\ total_processed = 0 /\ written = {}
    /\ found_dirs = <<>> /\ data_dirs = <<>> /\ dir_i = 0
    /\ csv_files = 0 /\ csv_i = 0
    /\ table_created = FALSE
    /\ csv_file = Unread
    /\ _load_data_checked = FALSE /\ _load_data_supported = "None"
    /\ temp_dir = FALSE /\ temp_files = 0
    /\ conns = {} /\ _engine = "None" /\ dbTrace = <<>>
    /\ tables = OldTables
    /\ valid_sqls = 0 /\ sql_i = 0 /\ executed_count = 0
    /\ found = [s \in {"unzip", "convert", "load", "script"} |-> 0]
    /\ attempts = <<>>

\* No thread is inside ProcessLogger.log: the file and the observer have
\* what the list has.
InitLogIdle ==
    /\ log_file = <<>>
    /\ callback = <<>>
    /\ log_call = <<>>
    /\ book = <<>>

\* No column is being coerced.
InitCoerceIdle ==
    /\ series = <<>>
    /\ col_type = "string"
    /\ replace_pads = FALSE
    /\ coerced = <<>>

\* No file is in the conversion loop.
InitColumnIdle ==
    /\ column_types = <<>>
    /\ col_k = 0
    /\ df_result = <<>>
    /\ csv_state = "none"
\* No archive is watched.
InitArchiveIdle ==
    /\ tree_zips = {}
    /\ holds_zip = {}
    /\ zip_list = <<>>
    /\ zip_k = 0
    /\ tried = <<>>
    /\ zip_status = <<>>
    /\ unzip_state = "none"
\* No script text is being parsed.
InitScriptIdle ==
    /\ sql_text = <<>>
    /\ parsed_sqls = <<>>
    /\ origins = <<>>
    /\ sql_state = "none"
\* No working tree is watched.
InitTreeIdle ==
    /\ tree_dirs = {}
    /\ tree_files = <<>>
    /\ scan_dirs = <<>>
    /\ scan_k = 0
    /\ scanned = <<>>
    /\ scan_state = "none"
\* No request is served.
InitApiIdle ==
    /\ global_task_lock = <<>>
    /\ upload_sessions = {}
    /\ upload_calls = <<>>
    /\ record_status = <<>>
    /\ threads = <<>>
\* No history file is watched.
InitHistoryIdle ==
    /\ history_file = <<>>
    /\ history_calls = <<>>
    /\ settled = <<>>
    /\ made = {}
logOthersIdle == InitCoerceIdle /\ InitColumnIdle /\ InitArchiveIdle /\
                 InitScriptIdle /\ InitTreeIdle /\ InitApiIdle /\
                 InitHistoryIdle
coerceOthersIdle == InitLogIdle /\ InitColumnIdle /\ InitArchiveIdle /\
                    InitScriptIdle /\ InitTreeIdle /\ InitApiIdle /\
                    InitHistoryIdle
columnOthersIdle == InitLogIdle /\ InitCoerceIdle /\ InitArchiveIdle /\
                    InitScriptIdle /\ InitTreeIdle /\ InitApiIdle /\
                    InitHistoryIdle
archiveOthersIdle == InitLogIdle /\ InitCoerceIdle /\ InitColumnIdle /\
                     InitScriptIdle /\ InitTreeIdle /\ InitApiIdle /\
                     InitHistoryIdle
scriptOthersIdle == InitLogIdle /\ InitCoerceIdle /\ InitColumnIdle /\
                    InitArchiveIdle /\ InitTreeIdle /\ InitApiIdle /\
                    InitHistoryIdle
treeOthersIdle == InitLogIdle /\ InitCoerceIdle /\ InitColumnIdle /\
                  InitArchiveIdle /\ InitScriptIdle /\ InitApiIdle /\
                  InitHistoryIdle
apiOthersIdle == InitLogIdle /\ InitCoerceIdle /\ InitColumnIdle /\
                 InitArchiveIdle /\ InitScriptIdle /\ InitTreeIdle /\
                 InitHistoryIdle
historyOthersIdle == InitLogIdle /\ InitCoerceIdle /\ InitColumnIdle /\
                     InitArchiveIdle /\ InitScriptIdle /\ InitTreeIdle /\
                     InitApiIdle
Init == InitRun /\ InitLogIdle /\ InitCoerceIdle /\ InitColumnIdle /\
        InitArchiveIdle /\ InitScriptIdle /\ InitTreeIdle /\ InitApiIdle /\
        InitHistoryIdle

(***************************************************************************)
(* process(), lines 117-118: the start of a run.                           *)
(***************************************************************************)
process_start ==
    /\ UNCHANGED <<found, attempts>>
    /\ pc = "idle"
    /\ logs' = log(logs, "INFO", "start", 0)
    /\ pc' = StageOrder[1]
    /\ UNCHANGED <<budget, results, exc, stageTrace, unzipVars, excelVars,
                   loadVars, fastVars, dbVars, sqlVars>>
    /\ UNCHANGED auxVars

(***************************************************************************)
(* _unzip_files, line 154: process() calls the stage.                      *)
(***************************************************************************)
_unzip_files_begin ==
    /\ UNCHANGED <<found, attempts>>
    /\ pc = "unzip"
    /\ logs' = log(logs, "INFO", "unzip_begin", 0)
    /\ Enter("unzip")
    /\ pc' = "unzip_scan"
    /\ UNCHANGED <<budget, results, exc, unzipVars, excelVars, loadVars,
                   fastVars, dbVars, sqlVars>>
    /\ UNCHANGED auxVars

(***************************************************************************)
(* _unzip_files, lines 155-156: the archives are discovered; the           *)
(* discovery (rglob) may fail, which no handler of the stage catches.      *)
(***************************************************************************)
_unzip_files_scan ==
    /\ pc = "unzip_scan"
    /\ attempts' = attempts
    /\ \/ /\ \E n \in 0..budget :
                /\ zip_files' = n
                /\ budget' = budget - n
                /\ Found("unzip", n)
          /\ zip_i' = 0
          /\ zip_count' = 0
          /\ pc' = "unzip_loop"
          /\ UNCHANGED <<exc, stageTrace>>
       \/ /\ Raise("unzip", "unzip: discovery failed")
          /\ UNCHANGED <<unzipVars, found>>
    /\ UNCHANGED <<logs, results, excelVars, loadVars, fastVars, dbVars, sqlVars>>
    /\ UNCHANGED auxVars

(***************************************************************************)
(* _unzip_files, lines 158-166: one archive.  The extraction              *)
(* (_extract_zip_with_encoding) succeeds or raises; the handler of the     *)
(* loop body logs the failure and the loop goes on.                        *)
(***************************************************************************)
_unzip_files_item ==
    /\ pc = "unzip_loop"
    /\ zip_i < zip_files
    /\ zip_i' = zip_i + 1
    /\ found' = found
    /\ \/ /\ zip_count' = zip_count + 1
          /\ logs' = log(logs, "INFO", "unzip", zip_i + 1)
          /\ Attempt("unzip", zip_i + 1, "ok")
       \/ /\ zip_count' = zip_count
          /\ logs' = log(log(logs, "INFO", "unzip", zip_i + 1),
                         "ERROR", "unzip_failed", zip_i + 1)
          /\ Attempt("unzip", zip_i + 1, "failed")
    /\ UNCHANGED <<pc, budget, results, exc, stageTrace, zip_files, excelVars,
                   loadVars, fastVars, dbVars, sqlVars>>
    /\ UNCHANGED auxVars

\* _unzip_files, line 168: the loop is over, the stage returns.
_unzip_files_return ==
    /\ UNCHANGED <<found, attempts>>
    /\ pc = "unzip_loop"
    /\ zip_i = zip_files
    /\ logs' = log(logs, "INFO", "unzip_done", zip_count)
    /\ Return("unzip")
    /\ UNCHANGED <<budget, results, unzipVars, excelVars, loadVars, fastVars,
                   dbVars, sqlVars>>
    /\ UNCHANGED auxVars

(***************************************************************************)
(* The spreadsheet stage.  A task is one call of _process_single_excel in  *)
(* the pool: state "queued", "running" or "done"; sheet is the index of    *)
(* the next sheet of xl.sheet_names; processed is the local counter;       *)
(* result is what the call returned; error says where the call raised      *)
(* ("open", "sheet") or "none"; collected says whether the main thread has *)
(* taken the future out of as_completed.                                   *)
(***************************************************************************)
NewTask == [state |-> "queued", sheet |-> 1, processed |-> 0, result |-> 0,
            error |-> "none", collected |-> FALSE]

Running == {f \in 1..Len(tasks) : tasks[f].state = "running"}

\* _process_excel_files_parallel, line 229: process() calls the stage.
_process_excel_files_parallel_begin ==
    /\ UNCHANGED <<found, attempts>>
    /\ pc = "convert"
    /\ logs' = log(logs, "INFO", "excel_begin", 0)
    /\ Enter("convert")
    /\ pc' = "convert_scan"
    /\ UNCHANGED <<budget, results, exc, unzipVars, excelVars, loadVars,
                   fastVars, dbVars, sqlVars>>
    /\ UNCHANGED auxVars

(***************************************************************************)
(* _process_excel_files_parallel, lines 230-244: the workbooks are         *)
(* discovered (which may fail), the stage returns at once when there is    *)
(* none, and otherwise every workbook is submitted to the pool.            *)
(***************************************************************************)
_process_excel_files_parallel_scan ==
    /\ pc = "convert_scan"
    /\ attempts' = attempts
    /\ \/ /\ logs' = log(logs, "INFO", "excel_found", 0)
          /\ Return("convert")
          /\ UNCHANGED <<budget, excelVars, found>>
       \/ /\ \E n \in 1..budget :
                /\ budget' = budget - n
                /\ Found("convert", n)
                /\ tasks' = [f \in 1..n |-> NewTask]
                /\ logs' = log(logs, "INFO", "excel_found", n)
          /\ total_processed' = 0
          /\ pc' = "convert_pool"
          /\ UNCHANGED <<exc, stageTrace, written>>
       \/ /\ Raise("convert", "convert: discovery failed")
          /\ UNCHANGED <<logs, excelVars, found>>
    /\ UNCHANGED <<results, unzipVars, loadVars, fastVars, dbVars, sqlVars>>
    /\ UNCHANGED auxVars

(***************************************************************************)
(* _process_single_excel, lines 204-209 and 222-225, in a worker thread:   *)
(* a free worker takes the oldest queued task and opens the workbook.  A   *)
(* workbook that cannot be opened is logged and the task returns 0.        *)
(***************************************************************************)
_process_single_excel_open(f) ==
    /\ pc = "convert_pool"
    /\ tasks[f].state = "queued"
    /\ \A g \in 1..(f - 1) : tasks[g].state # "queued"
    /\ Cardinality(Running) < MAX_WORKERS
    /\ found' = found
    /\ \/ /\ tasks' = [tasks EXCEPT ![f].state = "running"]
          /\ UNCHANGED <<logs, attempts>>
       \/ /\ tasks' = [tasks EXCEPT ![f].state = "done", ![f].result = 0,
                                     ![f].error = "open"]
          /\ logs' = log(logs, "ERROR", "excel_failed", f)
          /\ Attempt("convert", f, "failed")
    /\ UNCHANGED <<pc, budget, results, exc, stageTrace, unzipVars,
                   total_processed, written, loadVars, fastVars, dbVars, sqlVars>>
    /\ UNCHANGED auxVars

\* Mutant of _process_single_excel_sheet: the exclusion set is not looked at.
_process_single_excel_sheet_unfiltered(f) ==
    /\ pc = "convert_pool"
    /\ tasks[f].state = "running"
    /\ tasks[f].sheet <= Len(sheet_names)
    /\ found' = found
    /\ \/ /\ tasks' = [tasks EXCEPT ![f].sheet = @ + 1, ![f].processed = @ + 1]
          /\ written' = written \cup {<<f, sheet_names[tasks[f].sheet]>>}
          /\ UNCHANGED <<logs, attempts>>
       \/ /\ tasks' = [tasks EXCEPT ![f].state = "done", ![f].result = 0,
                                     ![f].error = "sheet"]
          /\ logs' = log(logs, "ERROR", "excel_failed", f)
          /\ written' = written
          /\ Attempt("convert", f, "failed")
    /\ UNCHANGED <<pc, budget, results, exc, stageTrace, unzipVars,
                   total_processed, loadVars, fastVars, dbVars, sqlVars>>
    /\ UNCHANGED auxVars

\* Mutant of _process_single_excel_sheet: a sheet whose conversion raises is
\* logged and passed over, and the loop goes on with the next sheet.
_process_single_excel_sheet_skip(f) ==
    /\ pc = "convert_pool"
    /\ tasks[f].state = "running"
    /\ tasks[f].sheet <= Len(sheet_names)
    /\ found' = found
    /\ attempts' = attempts
    /\ \/ /\ sheet_names[tasks[f].sheet] \in sheet_filter
          /\ tasks' = [tasks EXCEPT ![f].sheet = @ + 1]
          /\ UNCHANGED <<written, logs>>
       \/ /\ sheet_names[tasks[f].sheet] \notin sheet_filter
          /\ tasks' = [tasks EXCEPT ![f].sheet = @ + 1, ![f].processed = @ + 1]
          /\ written' = written \cup {<<f, sheet_names[tasks[f].sheet]>>}
          /\ logs' = logs
       \/ /\ sheet_names[tasks[f].sheet] \notin sheet_filter
          /\ tasks' = [tasks EXCEPT ![f].sheet = @ + 1, ![f].error = "sheet"]
          /\ logs' = log(logs, "ERROR", "excel_failed", f)
          /\ written' = written
    /\ UNCHANGED <<pc, budget, results, exc, stageTrace, unzipVars,
                   total_processed, loadVars, fastVars, dbVars, sqlVars>>
    /\ UNCHANGED auxVars

(***************************************************************************)
(* _process_single_excel, lines 211-217 and 222-225: one iteration of the  *)
(* loop over the sheets.  An excluded sheet is passed over; another sheet  *)
(* is parsed and written to <stem>_<sheet>.csv, or its conversion raises:  *)
(* the handler around the whole loop logs the workbook as failed and the   *)
(* task returns 0 without looking at the sheets that follow.               *)
(***************************************************************************)
_process_single_excel_sheet(f) ==
    /\ pc = "convert_pool"
    /\ tasks[f].state = "running"
    /\ tasks[f].sheet <= Len(sheet_names)
    /\ found' = found
    /\ \/ /\ sheet_names[tasks[f].sheet] \in sheet_filter
          /\ tasks' = [tasks EXCEPT ![f].sheet = @ + 1]
          /\ UNCHANGED <<written, logs, attempts>>
       \/ /\ sheet_names[tasks[f].sheet] \notin sheet_filter
          /\ tasks' = [tasks EXCEPT ![f].sheet = @ + 1, ![f].processed = @ + 1]
          /\ written' = written \cup {<<f, sheet_names[tasks[f].sheet]>>}
          /\ UNCHANGED <<logs, attempts>>
       \/ /\ sheet_names[tasks[f].sheet] \notin sheet_filter
          /\ tasks' = [tasks EXCEPT ![f].state = "done", ![f].result = 0,
                                     ![f].error = "sheet"]
          /\ logs' = log(logs, "ERROR", "excel_failed", f)
          /\ written' = written
          /\ Attempt("convert", f, "failed")
    /\ UNCHANGED <<pc, budget, results, exc, stageTrace, unzipVars,
                   total_processed, loadVars, fastVars, dbVars, sqlVars>>
    /\ UNCHANGED auxVars

\* _process_single_excel, lines 219-220: every sheet was handled; the
\* workbook is closed and the task returns its counter.
_process_single_excel_close(f) ==
    /\ pc = "convert_pool"
    /\ tasks[f].state = "running"
    /\ tasks[f].sheet > Len(sheet_names)
    /\ tasks' = [tasks EXCEPT ![f].state = "done", ![f].result = tasks[f].processed]
    /\ found' = found
    /\ Attempt("convert", f, "ok")
    /\ UNCHANGED <<pc, budget, logs, results, exc, stageTrace, unzipVars,
                   total_processed, written, loadVars, fastVars, dbVars, sqlVars>>
    /\ UNCHANGED auxVars

(***************************************************************************)
(* _process_excel_files_parallel, lines 246-256: as_completed hands the    *)
(* main thread a finished future; its result is added to the total.        *)
(***************************************************************************)
_process_excel_files_parallel_collect(f) ==
    /\ UNCHANGED <<found, attempts>>
    /\ pc = "convert_pool"
    /\ tasks[f].state = "done"
    /\ ~tasks[f].collected
    /\ tasks' = [tasks EXCEPT ![f].collected = TRUE]
    /\ total_processed' = total_processed + tasks[f].result
    /\ logs' = IF tasks[f].result > 0
               THEN log(logs, "INFO", "excel_done", f)
               ELSE logs
    /\ UNCHANGED <<pc, budget, results, exc, stageTrace, unzipVars, written,
                   loadVars, fastVars, dbVars, sqlVars>>
    /\ UNCHANGED auxVars

\* Mutant of _process_excel_files_parallel_return: the stage returns without
\* waiting for the tasks of the pool.
_process_excel_files_parallel_return_early ==
    /\ UNCHANGED <<found, attempts>>
    /\ pc = "convert_pool"
    /\ logs' = log(logs, "INFO", "excel_total", total_processed)
    /\ Return("convert")
    /\ UNCHANGED <<budget, results, unzipVars, excelVars, loadVars, fastVars,
                   dbVars, sqlVars>>
    /\ UNCHANGED auxVars

(***************************************************************************)
(* _process_excel_files_parallel, lines 246 and 258: as_completed is       *)
(* exhausted once every future was handed out, the pool is shut down       *)
(* (every task is over) and the stage reports its total and returns.       *)
(***************************************************************************)
_process_excel_files_parallel_return ==
    /\ UNCHANGED <<found, attempts>>
    /\ pc = "convert_pool"
    /\ \A f \in 1..Len(tasks) : tasks[f].collected
    /\ logs' = log(logs, "INFO", "excel_total", total_processed)
    /\ Return("convert")
    /\ UNCHANGED <<budget, results, unzipVars, excelVars, loadVars, fastVars,
                   dbVars, sqlVars>>
    /\ UNCHANGED auxVars

(***************************************************************************)
(* The load stage.                                                         *)
(***************************************************************************)
\* _process_csv_files, line 633: process() calls the stage.
_process_csv_files_begin ==
    /\ UNCHANGED <<found, attempts>>
    /\ pc = "load"
    /\ logs' = log(logs, "INFO", "csv_begin", 0)
    /\ Enter("load")
    /\ pc' = "load_find"
    /\ UNCHANGED <<budget, results, exc, unzipVars, excelVars, loadVars,
                   fastVars, dbVars, sqlVars>>
    /\ UNCHANGED auxVars

(***************************************************************************)
(* _find_data_directories, lines 607-611: the candidates, the directories  *)
(* of the working tree whose name is a tag, in the order rglob yields      *)
(* them.  The model draws up to MaxDirs of them, a directory 4G first.     *)
(***************************************************************************)
found_dirs_choices ==
    {dirs \in UNION {[1..n -> DirNames] : n \in 1..MaxDirs} : dirs[1] = "4G"}

(***************************************************************************)
(* _find_data_directories, lines 615-619: the dict after the first k       *)
(* candidates.  A candidate whose table name is already a key is left out. *)
(***************************************************************************)
RECURSIVE tagged_dirs(_, _)
tagged_dirs(dirs, k) ==
    IF k = 0 THEN <<>>
    ELSE LET acc == tagged_dirs(dirs, k - 1)
             name == upper(dirs[k]) \o "_UD"
         IN  IF \E j \in DOMAIN acc : acc[j].table = name
             THEN acc
             ELSE Append(acc, [table |-> name, subdir |-> k])

\* _find_data_directories, lines 621-627: without a tagged directory every
\* immediate child directory is a data directory, named after itself.
child_dirs(n) == [k \in 1..n |-> [table |-> ChildNames[k] \o "_UD", subdir |-> k]]

\* One INFO entry for each of the first k data directories (lines 619, 627).
RECURSIVE log_dirs(_, _, _)
log_dirs(l, dirs, k) ==
    IF k = 0 THEN l
    ELSE log(log_dirs(l, dirs, k - 1), "INFO", "data_dir", dirs[k].subdir)

(***************************************************************************)
(* _process_csv_files, lines 636-640, with _find_data_directories, lines   *)
(* 598-629: the data directories are discovered, which may fail; without   *)
(* any the stage returns.                                                  *)
(***************************************************************************)
_find_data_directories ==
    /\ UNCHANGED <<found, attempts>>
    /\ pc = "load_find"
    /\ \/ /\ logs' = log(logs, "INFO", "find_begin", 0)
          /\ Raise("load", "load: discovery failed")
          /\ UNCHANGED loadVars
       \/ /\ \E dirs \in found_dirs_choices :
                /\ found_dirs' = dirs
                /\ data_dirs' = tagged_dirs(dirs, Len(dirs))
                /\ logs' = log_dirs(log(log(logs, "INFO", "find_begin", 0),
                                        "INFO", "candidates", Len(dirs)),
                                    data_dirs', Len(data_dirs'))
          /\ dir_i' = 1
          /\ pc' = "load_dir"
          /\ UNCHANGED <<budget, exc, stageTrace, csv_files, csv_i, table_created,
                         csv_file>>
       \/ /\ found_dirs' = <<>>
          /\ \E n \in 0..MaxChildren :
                /\ data_dirs' = child_dirs(n)
                /\ IF n = 0
                   THEN /\ logs' = log(log(log(log(logs, "INFO", "find_begin", 0),
                                                "INFO", "candidates", 0),
                                            "WARN", "no_tagged_dirs", 0),
                                        "WARN", "no_data_dirs", 0)
                        /\ dir_i' = dir_i
                        /\ Return("load")
                   ELSE /\ logs' = log_dirs(log(log(log(logs, "INFO", "find_begin", 0),
                                                    "INFO", "candidates", 0),
                                                "WARN", "no_tagged_dirs", 0),
                                            data_dirs', n)
                        /\ dir_i' = 1
                        /\ pc' = "load_dir"
                        /\ UNCHANGED <<exc, stageTrace>>
          /\ UNCHANGED <<budget, csv_files, csv_i, table_created, csv_file>>
    /\ UNCHANGED <<results, unzipVars, excelVars, fastVars, dbVars, sqlVars>>
    /\ UNCHANGED auxVars

\* _process_csv_files, line 643: the table name of the current iteration.
table_name == data_dirs[dir_i].table

(***************************************************************************)
(* The database as the loader sees it.  DROP TABLE IF EXISTS               *)
(* (DatabaseManager.drop_table) removes the table if there is one; CREATE  *)
(* TABLE IF NOT EXISTS makes an empty table with the given columns unless  *)
(* the table exists, which then keeps its columns; an insertion adds the   *)
(* rows of one file, named by <<directory, file>>, and the server accepts  *)
(* it only into an existing table that has every named column.             *)
(***************************************************************************)
drop_table(db, name) == [t \in DOMAIN db \ {name} |-> db[t]]

created(db, name, cols) ==
    IF name \in DOMAIN db THEN db
    ELSE [t \in DOMAIN db \cup {name} |->
             IF t = name THEN [columns |-> cols, rows |-> {}] ELSE db[t]]

accepts(db, name, cols) == name \in DOMAIN db /\ cols \subseteq db[name].columns

inserted(db, name, file) == [db EXCEPT ![name].rows = @ \cup {file}]

\* Mutant of _process_csv_files_dir: the destination table is not dropped.
_process_csv_files_dir_keeps_table ==
    /\ pc = "load_dir"
    /\ attempts' = attempts
    /\ \E n \in 0..budget :
          /\ csv_files' = n
          /\ budget' = budget - n
          /\ Found("load", n)
          /\ logs' = log(log(logs, "INFO", "dir", dir_i),
                         "INFO", "csv_found", n)
    /\ dbTrace' = Append(dbTrace, <<"drop", table_name, "ok">>)
    /\ tables' = tables
    /\ csv_i' = 0
    /\ table_created' = FALSE
    /\ pc' = "load_connect"
    /\ UNCHANGED <<exc, stageTrace>>
    /\ UNCHANGED <<results, unzipVars, excelVars, found_dirs, data_dirs, dir_i,
                   csv_file, fastVars, conns, _engine, sqlVars>>
    /\ UNCHANGED auxVars

(***************************************************************************)
(* _process_csv_files, lines 644-655: a data directory.  The destination   *)
(* table is dropped (DatabaseManager.drop_table, on a connection of its    *)
(* own); a failure of the drop is caught by no handler of the stage.  Then *)
(* the delimited files of the directory are discovered.                    *)
(***************************************************************************)
_process_csv_files_dir ==
    /\ pc = "load_dir"
    /\ attempts' = attempts
    /\ \/ /\ \E n \in 0..budget :
                /\ csv_files' = n
                /\ budget' = budget - n
                /\ Found("load", n)
                /\ logs' = log(log(logs, "INFO", "dir", dir_i),
                               "INFO", "csv_found", n)
          /\ dbTrace' = Append(dbTrace, <<"drop", table_name, "ok">>)
          /\ tables' = drop_table(tables, table_name)
          /\ csv_i' = 0
          /\ table_created' = FALSE
          /\ pc' = "load_connect"
          /\ UNCHANGED <<exc, stageTrace>>
       \/ /\ logs' = log(logs, "INFO", "dir", dir_i)
          /\ dbTrace' = Append(dbTrace, <<"drop", table_name, "err">>)
          /\ Raise("load", "load: drop_table failed")
          /\ UNCHANGED <<csv_files, csv_i, table_created, found, tables>>
    /\ UNCHANGED <<results, unzipVars, excelVars, found_dirs, data_dirs, dir_i,
                   csv_file, fastVars, conns, _engine, sqlVars>>
    /\ UNCHANGED auxVars

(***************************************************************************)
(* _process_csv_files, line 658: the connection shared by the files of the *)
(* directory is opened (get_fast_connection); a failure to connect is      *)
(* caught by no handler of the stage.                                      *)
(***************************************************************************)
_process_csv_files_connect ==
    /\ UNCHANGED <<found, attempts>>
    /\ pc = "load_connect"
    /\ \/ /\ conns' = connect(conns, "load")
          /\ dbTrace' = Append(dbTrace, <<"connect", "load", "ok">>)
          /\ pc' = "load_file"
          /\ UNCHANGED <<budget, exc, stageTrace>>
       \/ /\ dbTrace' = Append(dbTrace, <<"connect", "load", "err">>)
          /\ Raise("load", "load: connect failed")
          /\ conns' = conns
    /\ UNCHANGED <<logs, results, unzipVars, excelVars, loadVars,
                   fastVars, _engine, tables, sqlVars>>
    /\ UNCHANGED auxVars

(***************************************************************************)
(* _process_csv_files, lines 671-673: the handler of the loop body.  An    *)
(* exception of the file is logged and the loop goes on with the next      *)
(* file; the caller's table_created keeps its value.  The call of          *)
(* _process_csv_file_fast is over and its parameter csv_file is gone.      *)
(***************************************************************************)
\* Mutant of csv_failed: the failure of a file ends the loop over the files.
csv_failed_break(l, message) ==
    /\ Attempt("load", <<dir_i, csv_i + 1>>, "failed")
    /\ logs' = log(l, "ERROR", message, csv_i + 1)
    /\ csv_i' = csv_files
    /\ table_created' = table_created
    /\ csv_file' = Unread
    /\ pc' = "load_file"

csv_failed(l, message) ==
    /\ Attempt("load", <<dir_i, csv_i + 1>>, "failed")
    /\ logs' = log(l, "ERROR", message, csv_i + 1)
    /\ csv_i' = csv_i + 1
    /\ table_created' = table_created
    /\ csv_file' = Unread
    /\ pc' = "load_file"

(***************************************************************************)
(* _process_csv_files, lines 661-669: _process_csv_file_fast returned      *)
(* (rows, created): the flag is taken over and, every tenth file, the      *)
(* progress is logged.                                                     *)
(***************************************************************************)
csv_returned(l, created_flag, outcome) ==
    /\ Attempt("load", <<dir_i, csv_i + 1>>, outcome)
    /\ table_created' = created_flag
    /\ csv_i' = csv_i + 1
    /\ logs' = IF (csv_i + 1) % ProgressEvery = 0
               THEN log(l, "INFO", "progress", csv_i + 1)
               ELSE l
    /\ csv_file' = Unread
    /\ pc' = "load_file"

(***************************************************************************)
(* The delimited files of the model: the canonical fields their headers    *)
(* match, and whether the auxiliary marker 'kpis' is in the file's own     *)
(* name and in the names of the directories above it.  The marker is read  *)
(* (line 311) only for a file with MinMatch or fewer matching columns, so  *)
(* the files with more of them are drawn without it.                       *)
(***************************************************************************)
csv_file_choices ==
    {[cols |-> h, name_kpis |-> n, dir_kpis |-> d] :
        h \in {x \in Headers : Cardinality(x) <= MinMatch},
        n \in BOOLEAN, d \in BOOLEAN}
    \cup {[cols |-> h, name_kpis |-> FALSE, dir_kpis |-> FALSE] :
             h \in {x \in Headers : Cardinality(x) > MinMatch}}

\* Line 311: 'kpis' in str(csv_file).lower(), a test on the whole path.
kpis_in_path(f) == f.name_kpis \/ f.dir_kpis

(***************************************************************************)
(* _process_csv_files, lines 659-663: the loop takes the next file of the  *)
(* directory and calls _process_csv_file_fast with it.                     *)
(***************************************************************************)
_process_csv_files_file ==
    /\ pc = "load_file"
    /\ csv_i < csv_files
    /\ \E f \in csv_file_choices : csv_file' = f
    /\ pc' = "load_read"
    /\ UNCHANGED <<budget, logs, results, exc, stageTrace, unzipVars, excelVars,
                   found_dirs, data_dirs, dir_i, csv_files, csv_i, table_created,
                   fastVars, dbVars, sqlVars, found, attempts>>
    /\ UNCHANGED auxVars

(***************************************************************************)
(* _process_csv_file_fast, lines 289-314: the file is read and its headers *)
(* are matched.  A file that cannot be read raises; a file with MinMatch   *)
(* or fewer known columns is passed over with a warning when its path      *)
(* holds the auxiliary marker and raises otherwise.                        *)
(***************************************************************************)
_process_csv_file_fast_read ==
    /\ pc = "load_read"
    /\ \/ \* the encoding detection or read_csv raises
          csv_failed(log(logs, "INFO", "csv", csv_i + 1), "csv_failed: unreadable")
       \/ IF Cardinality(csv_file.cols) <= MinMatch
          THEN IF kpis_in_path(csv_file)
               THEN \* return 0, table_created
                    csv_returned(log(log(logs, "INFO", "csv", csv_i + 1),
                                     "WARN", "csv_skipped", csv_i + 1),
                                 table_created, "skipped")
               ELSE \* ValueError
                    csv_failed(log(logs, "INFO", "csv", csv_i + 1),
                               "csv_failed: too few columns")
          ELSE \* the matched columns are renamed and converted
               /\ logs' = log(logs, "INFO", "csv", csv_i + 1)
               /\ pc' = "load_create"
               /\ UNCHANGED <<csv_i, table_created, csv_file, attempts>>
    /\ UNCHANGED <<budget, results, exc, stageTrace, unzipVars, excelVars,
                   found_dirs, data_dirs, dir_i, csv_files, fastVars, dbVars,
                   sqlVars, found>>
    /\ UNCHANGED auxVars

\* Lines 317-318: the columns of the rows of the file, the canonical fields
\* its headers match.
target_cols == csv_file.cols

(***************************************************************************)
(* The database operations the loader calls.  The DatabaseManager methods  *)
(* that take these calls (create_table_from_columns with the column types, *)
(* check_load_data_support, load_data_infile, bulk_insert on a given       *)
(* connection) are known by their outcomes only: the call returns, or it   *)
(* raises.                                                                 *)
(***************************************************************************)
create_table_from_columns == {"ok", "err"}
check_load_data_support == {"yes", "no", "err"}
load_data_infile == {"ok", "err"}
bulk_insert == {"ok", "err"}

(***************************************************************************)
(* _process_csv_file_fast, lines 359-362: the table is created, with the   *)
(* columns of this file, unless the caller's flag says it exists.  The     *)
(* local flag becomes true; the caller sees it only if the call returns.   *)
(* A failure to create the table raises out of the call.                   *)
(***************************************************************************)
_process_csv_file_fast_create ==
    /\ pc = "load_create"
    /\ found' = found
    /\ \/ /\ table_created
          /\ pc' = "load_check"
          /\ UNCHANGED <<logs, csv_i, table_created, csv_file, dbTrace, tables,
                         attempts>>
       \/ /\ ~table_created
          /\ \E o \in create_table_from_columns :
                /\ dbTrace' = Append(dbTrace, <<"create", table_name, o>>)
                /\ IF o = "ok"
                   THEN /\ tables' = created(tables, table_name, target_cols)
                        /\ pc' = "load_check"
                        /\ UNCHANGED <<logs, csv_i, table_created, csv_file,
                                       attempts>>
                   ELSE /\ tables' = tables
                        /\ csv_failed(logs, "csv_failed: create_table failed")
    /\ UNCHANGED <<budget, results, exc, stageTrace, unzipVars, excelVars,
                   found_dirs, data_dirs, dir_i, csv_files, fastVars,
                   conns, _engine, sqlVars>>
    /\ UNCHANGED auxVars

(***************************************************************************)
(* _check_load_data_support, lines 387-399, called at line 411.  The       *)
(* answer of an earlier call is reused: "supported or False".  The first   *)
(* call sets the checked flag, asks the database and stores and logs the   *)
(* answer; when asking raises, the exception leaves _load_data_infile and  *)
(* the file fails, with the checked flag set and the answer still None.    *)
(***************************************************************************)
_check_load_data_support ==
    /\ pc = "load_check"
    /\ found' = found
    /\ \/ /\ _load_data_checked
          /\ pc' = IF _load_data_supported = "True" THEN "load_fast" ELSE "load_fallback"
          /\ UNCHANGED <<logs, csv_i, table_created, csv_file, dbTrace, attempts,
                         _load_data_checked, _load_data_supported>>
       \/ /\ ~_load_data_checked
          /\ _load_data_checked' = TRUE
          /\ \E o \in check_load_data_support :
                /\ dbTrace' = Append(dbTrace, <<"check", "load", o>>)
                /\ CASE o = "yes" ->
                          /\ _load_data_supported' = "True"
                          /\ logs' = log(logs, "INFO", "load_data_enabled", 0)
                          /\ pc' = "load_fast"
                          /\ UNCHANGED <<csv_i, table_created, csv_file, attempts>>
                     [] o = "no" ->
                          /\ _load_data_supported' = "False"
                          /\ logs' = log(logs, "WARN", "downgrade: unsupported", 0)
                          /\ pc' = "load_fallback"
                          /\ UNCHANGED <<csv_i, table_created, csv_file, attempts>>
                     [] o = "err" ->
                          /\ _load_data_supported' = _load_data_supported
                          /\ csv_failed(logs, "csv_failed: support check failed")
    /\ UNCHANGED <<budget, results, exc, stageTrace, unzipVars, excelVars,
                   found_dirs, data_dirs, dir_i, csv_files,
                   temp_dir, temp_files, conns, _engine, tables, sqlVars>>
    /\ UNCHANGED auxVars

\* Mutant of _load_data_infile: a failed fast load falls back for its own
\* file and leaves the supported flag as it is.
_load_data_infile_keeps_flag ==
    /\ pc = "load_fast"
    /\ found' = found
    /\ temp_dir' = TRUE
    /\ \E o \in load_data_infile :
          /\ o = "ok" => accepts(tables, table_name, target_cols)
          /\ dbTrace' = Append(dbTrace, <<"load_fast", table_name, o>>)
          /\ IF o = "ok"
             THEN /\ temp_files' = 0
                  /\ tables' = inserted(tables, table_name, <<dir_i, csv_i + 1>>)
                  /\ csv_returned(logs, TRUE, "ok")
                  /\ UNCHANGED <<_load_data_supported>>
             ELSE /\ temp_files' = 1
                  /\ tables' = tables
                  /\ logs' = log(logs, "WARN", "downgrade: load failed", 0)
                  /\ _load_data_supported' = _load_data_supported
                  /\ pc' = "load_fallback"
                  /\ UNCHANGED <<csv_i, table_created, csv_file, attempts>>
    /\ UNCHANGED <<budget, results, exc, stageTrace, unzipVars, excelVars,
                   found_dirs, data_dirs, dir_i, csv_files,
                   _load_data_checked, conns, _engine, sqlVars>>
    /\ UNCHANGED auxVars

(***************************************************************************)
(* _load_data_infile, lines 415-441: the fast path.  The scratch directory *)
(* is made (_get_temp_dir), the rows are written to a temp file in it and  *)
(* the server loads the file, with the columns of this file.  On success   *)
(* the finally clause removes the temp file and the call returns; on a     *)
(* failure the downgrade is logged, the flag is cleared and the fallback   *)
(* runs inside the handler, the temp file being removed only after it.     *)
(***************************************************************************)
_load_data_infile ==
    /\ pc = "load_fast"
    /\ found' = found
    /\ temp_dir' = TRUE
    /\ \E o \in load_data_infile :
          /\ o = "ok" => accepts(tables, table_name, target_cols)
          /\ dbTrace' = Append(dbTrace, <<"load_fast", table_name, o>>)
          /\ IF o = "ok"
             THEN /\ temp_files' = 0
                  /\ tables' = inserted(tables, table_name, <<dir_i, csv_i + 1>>)
                  /\ csv_returned(logs, TRUE, "ok")
                  /\ UNCHANGED <<_load_data_supported>>
             ELSE /\ temp_files' = 1
                  /\ tables' = tables
                  /\ logs' = log(logs, "WARN", "downgrade: load failed", 0)
                  /\ _load_data_supported' = "False"
                  /\ pc' = "load_fallback"
                  /\ UNCHANGED <<csv_i, table_created, csv_file, attempts>>
    /\ UNCHANGED <<budget, results, exc, stageTrace, unzipVars, excelVars,
                   found_dirs, data_dirs, dir_i, csv_files,
                   _load_data_checked, conns, _engine, sqlVars>>
    /\ UNCHANGED auxVars

\* Mutant of _bulk_insert_fallback: the temp file of the failed fast load is
\* still there when the call is left.
_bulk_insert_fallback_keeps_temp ==
    /\ pc = "load_fallback"
    /\ found' = found
    /\ temp_files' = temp_files
    /\ \E o \in bulk_insert :
          /\ o = "ok" => accepts(tables, table_name, target_cols)
          /\ dbTrace' = Append(dbTrace, <<"insert", table_name, o>>)
          /\ IF o = "ok"
             THEN /\ tables' = inserted(tables, table_name, <<dir_i, csv_i + 1>>)
                  /\ csv_returned(logs, TRUE, "ok")
             ELSE /\ tables' = tables
                  /\ csv_failed(logs, "csv_failed: insert failed")
    /\ UNCHANGED <<budget, results, exc, stageTrace, unzipVars, excelVars,
                   found_dirs, data_dirs, dir_i, csv_files,
                   _load_data_checked, _load_data_supported, temp_dir,
                   conns, _engine, sqlVars>>
    /\ UNCHANGED auxVars

(***************************************************************************)
(* _bulk_insert_fallback, lines 451-457, called at line 413 or at line     *)
(* 441: the rows go to the database in batches, with the columns of this   *)
(* file.  Either way the finally clause of _load_data_infile (lines        *)
(* 443-449) has removed the temp file when the call is left.               *)
(***************************************************************************)
_bulk_insert_fallback ==
    /\ pc = "load_fallback"
    /\ found' = found
    /\ temp_files' = 0
    /\ \E o \in bulk_insert :
          /\ o = "ok" => accepts(tables, table_name, target_cols)
          /\ dbTrace' = Append(dbTrace, <<"insert", table_name, o>>)
          /\ IF o = "ok"
             THEN /\ tables' = inserted(tables, table_name, <<dir_i, csv_i + 1>>)
                  /\ csv_returned(logs, TRUE, "ok")
             ELSE /\ tables' = tables
                  /\ csv_failed(logs, "csv_failed: insert failed")
    /\ UNCHANGED <<budget, results, exc, stageTrace, unzipVars, excelVars,
                   found_dirs, data_dirs, dir_i, csv_files,
                   _load_data_checked, _load_data_supported, temp_dir,
                   conns, _engine, sqlVars>>
    /\ UNCHANGED auxVars

(***************************************************************************)
(* _process_csv_files, lines 658 and 675-677: the files of the directory   *)
(* are done, the shared connection is closed and the table is reported.    *)
(* The loop over the directories goes on, or the stage returns.            *)
(***************************************************************************)
_process_csv_files_dir_end ==
    /\ UNCHANGED <<found, attempts>>
    /\ pc = "load_file"
    /\ csv_i = csv_files
    /\ conns' = conn_close(conns, "load")
    /\ dbTrace' = Append(dbTrace, <<"close", "load", "ok">>)
    /\ logs' = log(logs, "SUCCESS", "table_done", dir_i)
    /\ \/ /\ dir_i < Len(data_dirs)
          /\ dir_i' = dir_i + 1
          /\ pc' = "load_dir"
          /\ UNCHANGED <<exc, stageTrace>>
       \/ /\ dir_i = Len(data_dirs)
          /\ dir_i' = dir_i
          /\ Return("load")
    /\ UNCHANGED <<budget, results, unzipVars, excelVars, found_dirs, data_dirs,
                   csv_files, csv_i, table_created, csv_file, fastVars, _engine,
                   tables, sqlVars>>
    /\ UNCHANGED auxVars

(***************************************************************************)
(* The script stage.                                                       *)
(***************************************************************************)
\* _execute_sql_script, line 730: process() calls the stage.
_execute_sql_script_begin ==
    /\ UNCHANGED <<found, attempts>>
    /\ pc = "script"
    /\ Enter("script")
    /\ pc' = "script_read"
    /\ UNCHANGED <<budget, logs, results, exc, unzipVars, excelVars, loadVars,
                   fastVars, dbVars, sqlVars>>
    /\ UNCHANGED auxVars

(***************************************************************************)
(* _execute_sql_script, lines 730-751: a script that is missing (line      *)
(* 732), empty (line 741) or without a statement (line 748) is passed over *)
(* with a warning, each of the three in the same way; reading the file may *)
(* fail; otherwise parse_sql_script yields the statements.                 *)
(***************************************************************************)
_execute_sql_script_read ==
    /\ pc = "script_read"
    /\ attempts' = attempts
    /\ \/ /\ logs' = log(logs, "WARN", "script_skipped", 0)
          /\ Return("script")
          /\ UNCHANGED <<budget, sqlVars, found>>
       \/ /\ logs' = log(logs, "INFO", "script_begin", 0)
          /\ Raise("script", "script: read failed")
          /\ UNCHANGED <<sqlVars, found>>
       \/ /\ \E n \in 1..budget :
                /\ valid_sqls' = n
                /\ budget' = budget - n
                /\ Found("script", n)
                /\ logs' = log(log(logs, "INFO", "script_begin", 0),
                               "INFO", "script_statements", n)
          /\ sql_i' = 0
          /\ executed_count' = 0
          /\ pc' = "script_connect"
          /\ UNCHANGED <<exc, stageTrace>>
    /\ UNCHANGED <<results, unzipVars, excelVars, loadVars, fastVars, dbVars>>
    /\ UNCHANGED auxVars

(***************************************************************************)
(* _execute_sql_script, lines 756-757: the connection of the script is     *)
(* opened (get_connection, a connection of its own and not one of the      *)
(* pool); a failure to connect is caught by no handler of the stage.       *)
(***************************************************************************)
_execute_sql_script_connect ==
    /\ UNCHANGED <<found, attempts>>
    /\ pc = "script_connect"
    /\ \/ /\ conns' = connect(conns, "script")
          /\ dbTrace' = Append(dbTrace, <<"connect", "script", "ok">>)
          /\ pc' = "script_stmt"
          /\ UNCHANGED <<budget, exc, stageTrace>>
       \/ /\ dbTrace' = Append(dbTrace, <<"connect", "script", "err">>)
          /\ Raise("script", "script: connect failed")
          /\ conns' = conns
    /\ UNCHANGED <<logs, results, unzipVars, excelVars, loadVars,
                   fastVars, _engine, tables, sqlVars>>
    /\ UNCHANGED auxVars

\* Mutant of _execute_sql_script_stmt: a statement that fails ends the loop.
_execute_sql_script_stmt_abort ==
    /\ pc = "script_stmt"
    /\ sql_i < valid_sqls
    /\ found' = found
    /\ \/ /\ dbTrace' = Append(dbTrace, <<"execute", sql_i + 1, "ok">>)
          /\ Attempt("script", sql_i + 1, "ok")
          /\ sql_i' = sql_i + 1
          /\ executed_count' = executed_count + 1
          /\ logs' = log(log(logs, "INFO", "sql", sql_i + 1),
                         "INFO", "sql_done", sql_i + 1)
       \/ /\ dbTrace' = Append(dbTrace, <<"execute", sql_i + 1, "err">>)
          /\ Attempt("script", sql_i + 1, "failed")
          /\ sql_i' = valid_sqls
          /\ executed_count' = executed_count
          /\ logs' = log(log(logs, "INFO", "sql", sql_i + 1),
                         "ERROR", "sql_failed", sql_i + 1)
    /\ UNCHANGED <<pc, budget, results, exc, stageTrace, unzipVars, excelVars,
                   loadVars, fastVars, conns, _engine, tables, valid_sqls>>
    /\ UNCHANGED auxVars

(***************************************************************************)
(* _execute_sql_script, lines 758-774: one statement.  It is executed on   *)
(* the connection of the script; a failure is logged and the loop goes on. *)
(***************************************************************************)
_execute_sql_script_stmt ==
    /\ pc = "script_stmt"
    /\ sql_i < valid_sqls
    /\ sql_i' = sql_i + 1
    /\ found' = found
    /\ \/ /\ dbTrace' = Append(dbTrace, <<"execute", sql_i + 1, "ok">>)
          /\ Attempt("script", sql_i + 1, "ok")
          /\ executed_count' = executed_count + 1
          /\ logs' = log(log(logs, "INFO", "sql", sql_i + 1),
                         "INFO", "sql_done", sql_i + 1)
       \/ /\ dbTrace' = Append(dbTrace, <<"execute", sql_i + 1, "err">>)
          /\ Attempt("script", sql_i + 1, "failed")
          /\ executed_count' = executed_count
          /\ logs' = log(log(logs, "INFO", "sql", sql_i + 1),
                         "ERROR", "sql_failed", sql_i + 1)
    /\ UNCHANGED <<pc, budget, results, exc, stageTrace, unzipVars, excelVars,
                   loadVars, fastVars, conns, _engine, tables, valid_sqls>>
    /\ UNCHANGED auxVars

\* Mutant of _execute_sql_script_commit: the transaction is committed only
\* when no statement failed.
_execute_sql_script_commit_if_clean ==
    /\ pc = "script_stmt"
    /\ sql_i = valid_sqls
    /\ UNCHANGED <<found, attempts>>
    /\ conns' = conn_close(conns, "script")
    /\ dbTrace' = IF executed_count = valid_sqls
                  THEN dbTrace \o <<<<"commit", "script", "ok">>,
                                    <<"close", "script", "ok">>>>
                  ELSE Append(dbTrace, <<"close", "script", "ok">>)
    /\ logs' = log(logs, "SUCCESS", "script_done", executed_count)
    /\ Return("script")
    /\ UNCHANGED <<budget, results, unzipVars, excelVars, loadVars, fastVars,
                   _engine, tables, sqlVars>>
    /\ UNCHANGED auxVars

(***************************************************************************)
(* _execute_sql_script, lines 776-778: after the loop the transaction is   *)
(* committed, the connection is closed by its context manager and the      *)
(* stage reports and returns.  A commit that raises leaves the stage, the  *)
(* connection being closed on the way out.                                 *)
(***************************************************************************)
_execute_sql_script_commit ==
    /\ UNCHANGED <<found, attempts>>
    /\ pc = "script_stmt"
    /\ sql_i = valid_sqls
    /\ conns' = conn_close(conns, "script")
    /\ \/ /\ dbTrace' = dbTrace \o <<<<"commit", "script", "ok">>,
                                     <<"close", "script", "ok">>>>
          /\ logs' = log(logs, "SUCCESS", "script_done", executed_count)
          /\ Return("script")
          /\ budget' = budget
       \/ /\ dbTrace' = dbTrace \o <<<<"commit", "script", "err">>,
                                     <<"close", "script", "ok">>>>
          /\ logs' = logs
          /\ Raise("script", "script: commit failed")
    /\ UNCHANGED <<results, unzipVars, excelVars, loadVars, fastVars,
                   _engine, tables, sqlVars>>
    /\ UNCHANGED auxVars

(***************************************************************************)
(* process(), lines 133-150.                                               *)
(***************************************************************************)
\* A dict assignment d[k] = v.
dict_set(d, k, v) == [x \in DOMAIN d \cup {k} |-> IF x = k THEN v ELSE d[x]]

\* Mutant of _cleanup_temp_dir: the scratch directory is removed only after
\* a run without an exception.
_cleanup_temp_dir_on_success ==
    /\ temp_dir' = IF exc = "none" THEN FALSE ELSE temp_dir
    /\ temp_files' = IF exc = "none" THEN 0 ELSE temp_files

\* _cleanup_temp_dir, lines 375-383: the scratch directory is removed with
\* everything in it, if it exists.
_cleanup_temp_dir ==
    /\ temp_dir' = FALSE
    /\ temp_files' = 0

\* DatabaseManager.dispose, lines 258-262: the pool is released, if there is one.
dispose == _engine' = "None"

\* Lines 144-150: the finally clause, then process() returns the result.
process_finally ==
    /\ _cleanup_temp_dir
    /\ dispose
    /\ pc' = "done"

\* Lines 133-137 and 144-150: every stage returned; the elapsed time is
\* taken, the result says success, and the finally clause runs.
process_success ==
    /\ UNCHANGED <<found, attempts>>
    /\ pc = "success"
    /\ logs' = log(logs, "SUCCESS", "finished", 0)
    /\ results' = dict_set(dict_set(results, "success", "True"),
                           "elapsed_time", "elapsed")
    /\ process_finally
    /\ UNCHANGED <<budget, exc, stageTrace, unzipVars, excelVars, loadVars,
                   _load_data_checked, _load_data_supported,
                   conns, dbTrace, tables, sqlVars>>
    /\ UNCHANGED auxVars

\* Lines 139-150: a stage raised; the result says failure and carries the
\* message of the exception, and the finally clause runs.
process_except ==
    /\ UNCHANGED <<found, attempts>>
    /\ pc = "except"
    /\ logs' = log(logs, "ERROR", exc, 0)
    /\ results' = dict_set(dict_set(results, "success", "False"), "error", exc)
    /\ process_finally
    /\ UNCHANGED <<budget, exc, stageTrace, unzipVars, excelVars, loadVars,
                   _load_data_checked, _load_data_supported,
                   conns, dbTrace, tables, sqlVars>>
    /\ UNCHANGED auxVars

Next ==
    \/ process_start
    \/ _unzip_files_begin
    \/ _unzip_files_scan
    \/ _unzip_files_item
    \/ _unzip_files_return
    \/ _process_excel_files_parallel_begin
    \/ _process_excel_files_parallel_scan
    \/ \E f \in 1..Len(tasks) : _process_single_excel_open(f)
    \/ \E f \in 1..Len(tasks) : _process_single_excel_sheet(f)
    \/ \E f \in 1..Len(tasks) : _process_single_excel_close(f)
    \/ \E f \in 1..Len(tasks) : _process_excel_files_parallel_collect(f)
    \/ _process_excel_files_parallel_return
    \/ _process_csv_files_begin
    \/ _find_data_directories
    \/ _process_csv_files_dir
    \/ _process_csv_files_connect
    \/ _process_csv_files_file
    \/ _process_csv_file_fast_read
    \/ _process_csv_file_fast_create
    \/ _check_load_data_support
    \/ _load_data_infile
    \/ _bulk_insert_fallback
    \/ _process_csv_files_dir_end
    \/ _execute_sql_script_begin
    \/ _execute_sql_script_read
    \/ _execute_sql_script_connect
    \/ _execute_sql_script_stmt
    \/ _execute_sql_script_commit
    \/ process_success
    \/ process_except

Spec == Init /\ [][Next]_vars

(***************************************************************************)
(* ProcessLogger.log called by the threads of the convert stage.  The      *)
(* workers of the pool log the failure of a workbook (line 225) and the    *)
(* thread of process() logs every workbook that yielded output files       *)
(* (line 253).  log() holds no lock: a call is three steps, the append to  *)
(* the list (line 39), the write to the log file (lines 42-48) and the     *)
(* call of the observer (lines 50-51), and the steps of the calls of       *)
(* different threads interleave.                                           *)
(***************************************************************************)
\* The thread of process() and, for each workbook f, the worker that runs it.
MainThread == 0
LogThreads == {MainThread} \cup (1..LogBooks)

\* A thread that is not inside log().
Idle == [step |-> "idle", entry |-> <<>>]

InitLog ==
    /\ InitRun
    /\ logOthersIdle
    /\ log_file = <<>>
    /\ callback = <<>>
    /\ log_call = [t \in LogThreads |-> Idle]
    /\ book = [f \in 1..LogBooks |-> "queued"]

\* ProcessLogger.log, lines 37-39: the entry is appended to the list.
log_append(t, entry) ==
    /\ log_call[t].step = "idle"
    /\ logs' = Append(logs, entry)
    /\ log_call' = [log_call EXCEPT ![t] = [step |-> "appended", entry |-> entry]]
    /\ UNCHANGED <<log_file, callback>>

\* ProcessLogger.log, lines 42-48: the entry is appended to the log file; a
\* write that fails is reported on the console and the call goes on.
log_write(t) ==
    /\ log_call[t].step = "appended"
    /\ \/ log_file' = Append(log_file, log_call[t].entry)
       \/ log_file' = log_file
    /\ log_call' = [log_call EXCEPT ![t].step = "written"]
    /\ UNCHANGED <<logs, callback, book, logRest>>

\* ProcessLogger.log, lines 50-51: the observer is called with the entry and
\* log() returns; a worker then returns 0 from its task (line 225).
log_callback(t) ==
    /\ log_call[t].step = "written"
    /\ callback' = Append(callback, log_call[t].entry)
    /\ log_call' = [log_call EXCEPT ![t] = Idle]
    /\ book' = IF t = MainThread THEN book ELSE [book EXCEPT ![t] = "failed"]
    /\ UNCHANGED <<logs, log_file, logRest>>

\* ThreadPoolExecutor, line 240: a free worker takes a queued workbook.
worker_start(f) ==
    /\ book[f] = "queued"
    /\ Cardinality({g \in DOMAIN book : book[g] \in {"running", "failing"}}) < MAX_WORKERS
    /\ book' = [book EXCEPT ![f] = "running"]
    /\ UNCHANGED <<logs, log_file, callback, log_call, logRest>>

\* _process_single_excel, lines 219-220: the workbook is converted and the
\* task returns its count; the worker logs nothing.
worker_return(f) ==
    /\ book[f] = "running"
    /\ book' = [book EXCEPT ![f] = "converted"]
    /\ UNCHANGED <<logs, log_file, callback, log_call, logRest>>

\* _process_single_excel, lines 222-225: the conversion raises and the
\* worker calls self.logger.error.
worker_error(f) ==
    /\ book[f] = "running"
    /\ log_append(f, <<"ERROR", "excel_failed", f>>)
    /\ book' = [book EXCEPT ![f] = "failing"]
    /\ UNCHANGED logRest

\* _process_excel_files_parallel, lines 246-253: as_completed hands over a
\* workbook with a positive count and the thread of process() logs it.
main_done(f) ==
    /\ book[f] = "converted"
    /\ log_append(MainThread, <<"INFO", "excel_done", f>>)
    /\ book' = [book EXCEPT ![f] = "reported"]
    /\ UNCHANGED logRest

NextLog ==
    \/ \E f \in 1..LogBooks : worker_start(f)
    \/ \E f \in 1..LogBooks : worker_return(f)
    \/ \E f \in 1..LogBooks : worker_error(f)
    \/ \E f \in 1..LogBooks : main_done(f)
    \/ \E t \in LogThreads : log_write(t)
    \/ \E t \in LogThreads : log_callback(t)

SpecLog == InitLog /\ [][NextLog]_vars

(***************************************************************************)
(* The coercion of an int and of a float column, _convert_int_column and   *)
(* _convert_float_column.  A cell is its text, a sequence of characters; a *)
(* number is held in thousandths, which is exact for the cells of the      *)
(* model (at most one fractional digit, divided by 100 at most once).      *)
(***************************************************************************)
None == <<"None">>

Digits == {"0", "1", "2", "3", "4", "5", "6", "7", "8", "9"}

DigitOf(c) ==
    CASE c = "0" -> 0 [] c = "1" -> 1 [] c = "2" -> 2 [] c = "3" -> 3
      [] c = "4" -> 4 [] c = "5" -> 5 [] c = "6" -> 6 [] c = "7" -> 7
      [] c = "8" -> 8 [] c = "9" -> 9

\* The raw cells a column of the model is made of.
CoerceCells ==
    {<<>>, <<"a">>, <<"0">>, <<"0", ".", "0">>, <<"0", "%">>, <<"4", "0", "%">>,
     <<"9", "5", "%">>, <<"5">>, <<"2", ".", "5">>, <<"1", ",", "5">>}

\* str.contains(ch, regex=False) and str.replace(ch, '', regex=False).
str_contains(cell, ch) == \E i \in DOMAIN cell : cell[i] = ch
str_remove(cell, ch) == SelectSeq(cell, LAMBDA c : c # ch)

\* Lines 567 and 586: the percent marker and the thousands separators go.
cleaned(cell) == str_remove(str_remove(cell, "%"), ",")

RECURSIVE nat_of(_)
nat_of(ds) ==
    IF ds = <<>> THEN 0
    ELSE 10 * nat_of(SubSeq(ds, 1, Len(ds) - 1)) + DigitOf(ds[Len(ds)])

Thousand == 1000

\* The fractional digits ds as thousandths.
frac_of(ds) ==
    LET d(i) == IF i <= Len(ds) THEN DigitOf(ds[i]) ELSE 0
    IN  100 * d(1) + 10 * d(2) + d(3)

NaN == [nan |-> TRUE, whole |-> FALSE, milli |-> 0]

\* pd.to_numeric(errors='coerce') on one text: a decimal literal is parsed,
\* as an integer when it has no point; anything else is NaN.
to_numeric(text) ==
    LET points == {i \in DOMAIN text : text[i] = "."}
    IN  IF \/ text = <<>>
           \/ \E i \in DOMAIN text : text[i] \notin Digits \cup {"."}
           \/ Cardinality(points) > 1
           \/ Cardinality(points) = Len(text)
        THEN NaN
        ELSE IF points = {}
        THEN [nan |-> FALSE, whole |-> TRUE, milli |-> Thousand * nat_of(text)]
        ELSE LET p == CHOOSE i \in points : TRUE
             IN  [nan |-> FALSE, whole |-> FALSE,
                  milli |-> Thousand * nat_of(SubSeq(text, 1, p - 1))
                            + frac_of(SubSeq(text, p + 1, Len(text)))]

\* Lines 564-572 and 583-591: the numeric value of a cell, divided by 100
\* when the cell has a percent marker.
numeric_of(cell) ==
    LET n == to_numeric(cleaned(cell))
    IN  IF n.nan \/ ~str_contains(cell, "%") THEN n
        ELSE [n EXCEPT !.milli = @ \div 100]

\* The dtype of the numeric column: int64 when every cell parsed as an
\* integer and the values assigned at lines 572 and 591 are whole, float64
\* otherwise.
is_int64(column) ==
    \A i \in DOMAIN column :
       LET n == numeric_of(column[i])
       IN  ~n.nan /\ n.whole /\ n.milli % Thousand = 0

\* Series.round(): to the nearest whole number, a half to the even one.
round(milli) ==
    LET q == milli \div Thousand
        r == milli % Thousand
    IN  IF r < 500 THEN q
        ELSE IF r > 500 THEN q + 1
        ELSE IF q % 2 = 0 THEN q ELSE q + 1

\* astype(str) of a whole number.
RECURSIVE str_of_int(_)
str_of_int(n) ==
    LET c == CHOOSE x \in Digits : DigitOf(x) = n % 10
    IN  IF n < 10 THEN <<c>> ELSE Append(str_of_int(n \div 10), c)

\* astype(str) of a float64: the whole part, the point, and the fractional
\* digits without trailing zeros, at least one.
str_of_float(milli) ==
    LET r == milli % Thousand
        frac == IF r = 0 THEN <<"0">>
                ELSE IF r % 100 = 0 THEN str_of_int(r \div 100)
                ELSE IF r % 10 = 0
                THEN IF r < 100 THEN <<"0">> \o str_of_int(r \div 10)
                     ELSE str_of_int(r \div 10)
                ELSE IF r < 10 THEN <<"0", "0">> \o str_of_int(r)
                ELSE IF r < 100 THEN <<"0">> \o str_of_int(r)
                ELSE str_of_int(r)
    IN  str_of_int(milli \div Thousand) \o <<".">> \o frac

(***************************************************************************)
(* Series.replace(value, None, regex=False).  Depending on the pandas that *)
(* is installed the cells equal to value become None, or (a value of None  *)
(* being taken for no value) they are padded with the last cell before     *)
(* them that is not equal to value, and stay as they are without one.      *)
(***************************************************************************)
replace(column, value) ==
    [i \in DOMAIN column |->
        IF column[i] # value THEN column[i]
        ELSE IF ~replace_pads THEN None
        ELSE LET before == {j \in 1..(i - 1) : column[j] # value}
             IN  IF before = {} THEN column[i]
                 ELSE column[CHOOSE j \in before : \A h \in before : h <= j]]

\* Line 575: round, fillna(0), astype(int), astype(str), replace('0', None).
int_column(column) ==
    replace([i \in DOMAIN column |->
                LET n == numeric_of(column[i])
                IN  str_of_int(IF n.nan THEN 0 ELSE round(n.milli))],
            <<"0">>)

\* Line 594: fillna(0), astype(str), replace('0.0', None), replace('0', None).
float_column(column) ==
    replace(replace([i \in DOMAIN column |->
                        LET n == numeric_of(column[i])
                            v == IF n.nan THEN 0 ELSE n.milli
                        IN  IF is_int64(column) THEN str_of_int(v \div Thousand)
                            ELSE str_of_float(v)],
                    <<"0", ".", "0">>),
            <<"0">>)

\* A column of raw cells of a declared numeric type is about to be coerced.
InitCoerce ==
    /\ InitRun
    /\ coerceOthersIdle
    /\ series \in UNION {[1..n -> CoerceCells] : n \in 1..MaxCells}
    /\ col_type \in {"int", "float"}
    /\ replace_pads \in BOOLEAN
    /\ coerced = <<>>

\* _process_csv_file_fast, lines 339-341, with _convert_int_column.
_convert_int_column ==
    /\ col_type = "int"
    /\ series # <<>>
    /\ coerced = <<>>
    /\ coerced' = int_column(series)
    /\ UNCHANGED <<series, col_type, replace_pads, coerceRest>>

\* _process_csv_file_fast, lines 343-345, with _convert_float_column.
_convert_float_column ==
    /\ col_type = "float"
    /\ series # <<>>
    /\ coerced = <<>>
    /\ coerced' = float_column(series)
    /\ UNCHANGED <<series, col_type, replace_pads, coerceRest>>

NextCoerce ==
    \/ _convert_int_column
    \/ _convert_float_column

SpecCoerce == InitCoerce /\ [][NextCoerce]_vars

(***************************************************************************)
(* _process_csv_file_fast, lines 328-357: the loop that converts the       *)
(* matched columns of one file by their declared types.  The datetime, int *)
(* and float conversions are methods that catch every exception and return *)
(* the column as it was; the text and the string conversions are written   *)
(* in the loop itself, under no handler, so that an exception of theirs    *)
(* leaves _process_csv_file_fast.                                          *)
(***************************************************************************)
ColumnTypes == {"datetime", "int", "float", "text", "string"}

InitColumns ==
    /\ InitRun
    /\ columnOthersIdle
    /\ column_types \in UNION {[1..n -> ColumnTypes] : n \in 1..MaxCols}
    /\ col_k = 0
    /\ df_result = [k \in DOMAIN column_types |-> "raw"]
    /\ csv_state = "converting"

\* The column the loop is at has the declared type t.
at_column(t) ==
    /\ csv_state = "converting"
    /\ col_k < Len(column_types)
    /\ column_types[col_k + 1] = t

\* The conversion of the column returned: the converted column, or, from
\* the handler of a conversion method, the column unmodified.
column_returned(outcome) ==
    /\ df_result' = [df_result EXCEPT ![col_k + 1] = outcome]
    /\ col_k' = col_k + 1
    /\ UNCHANGED <<column_types, csv_state, columnRest>>

\* An exception leaves the loop and _process_csv_file_fast; the handler of
\* _process_csv_files (lines 671-673) logs the file as failed.
column_raised ==
    /\ df_result' = [df_result EXCEPT ![col_k + 1] = "raised"]
    /\ csv_state' = "failed"
    /\ UNCHANGED <<column_types, col_k, columnRest>>

\* Lines 334-336 with _convert_datetime_column, lines 508-558.
column_datetime ==
    /\ at_column("datetime")
    /\ \/ column_returned("converted")
       \/ column_returned("unmodified")

\* Lines 338-340 with _convert_int_column, lines 560-577.
column_int ==
    /\ at_column("int")
    /\ \/ column_returned("converted")
       \/ column_returned("unmodified")

\* Lines 342-344 with _convert_float_column, lines 579-596.
column_float ==
    /\ at_column("float")
    /\ \/ column_returned("converted")
       \/ column_returned("unmodified")

\* Lines 346-350: a long text is cut to 65535 characters.
column_text ==
    /\ at_column("text")
    /\ \/ column_returned("converted")
       \/ column_raised

\* Lines 352-357: the percent markers go and the string is cut to 255
\* characters.
column_string ==
    /\ at_column("string")
    /\ \/ column_returned("converted")
       \/ column_raised

\* Lines 359-367: every column is handled; the table is made and the rows
\* are loaded.
columns_loaded ==
    /\ csv_state = "converting"
    /\ col_k = Len(column_types)
    /\ csv_state' = "loaded"
    /\ UNCHANGED <<column_types, col_k, df_result, columnRest>>

NextColumns ==
    \/ column_datetime
    \/ column_int
    \/ column_float
    \/ column_text
    \/ column_string
    \/ columns_loaded

SpecColumns == InitColumns /\ [][NextColumns]_vars

(***************************************************************************)
(* _unzip_files and _extract_zip_with_encoding, archive by archive.  An    *)
(* archive is named by its path: <<a>> lies in the working tree before the *)
(* run, <<a, 1>> is an archive packed inside <<a>>, which comes into the   *)
(* tree when <<a>> is extracted (extractall into the parent directory).    *)
(***************************************************************************)
ZipPaths == {<<a>> : a \in 1..MaxZips} \cup {<<a, 1>> : a \in 1..MaxZips}

\* The filename encodings in the order the code tries them (lines 176-190).
Encodings == <<"utf-8", "gbk", "cp437">>

\* How one ZipFile(...).extractall(...) can end: it returns, it raises
\* UnicodeDecodeError or BadZipFile, or it raises another exception.
ExtractOutcomes == {"ok", "decode_error", "other_error"}

InitArchives ==
    /\ InitRun
    /\ archiveOthersIdle
    /\ \E n \in 1..MaxZips : tree_zips = {<<a>> : a \in 1..n}
    /\ holds_zip \in SUBSET tree_zips
    /\ zip_list = <<>>
    /\ zip_k = 0
    /\ tried = [p \in ZipPaths |-> <<>>]
    /\ zip_status = [p \in ZipPaths |-> "none"]
    /\ unzip_state = "scan"

\* The archives of the tree as rglob lists them, in path order.
RECURSIVE listed(_)
listed(zips) ==
    IF zips = {} THEN <<>>
    ELSE LET first == CHOOSE p \in zips :
                         \A q \in zips : p[1] < q[1] \/ (p[1] = q[1] /\ Len(p) <= Len(q))
         IN  <<first>> \o listed(zips \ {first})

\* _unzip_files, line 155: zip_files = list(self.work_dir.rglob("*.zip")),
\* taken once, before the loop.
unzip_list ==
    /\ unzip_state = "scan"
    /\ zip_list' = listed(tree_zips)
    /\ unzip_state' = "loop"
    /\ UNCHANGED <<tree_zips, holds_zip, zip_k, tried, zip_status, archiveRest>>

\* The archive the loop of _unzip_files is at.
zip_file == zip_list[zip_k + 1]

\* extractall returned: the members are in the parent directory of the
\* archive, a packed archive among them (lines 177-179, 183-185, 189-191),
\* and _unzip_files counts the archive (line 163).
extract_ok(enc) ==
    /\ tried' = [tried EXCEPT ![zip_file] = Append(@, enc)]
    /\ tree_zips' = IF zip_file \in holds_zip
                    THEN tree_zips \cup {Append(zip_file, 1)}
                    ELSE tree_zips
    /\ zip_status' = [zip_status EXCEPT ![zip_file] = "extracted"]
    /\ zip_k' = zip_k + 1
    /\ UNCHANGED <<holds_zip, zip_list, unzip_state, archiveRest>>

\* The handler of this candidate takes the exception: the next one is tried.
extract_next(enc) ==
    /\ tried' = [tried EXCEPT ![zip_file] = Append(@, enc)]
    /\ UNCHANGED <<tree_zips, holds_zip, zip_list, zip_k, zip_status,
                   unzip_state, archiveRest>>

\* The exception leaves _extract_zip_with_encoding; _unzip_files logs the
\* archive as failed and goes on (lines 164-166).
extract_failed(enc) ==
    /\ tried' = [tried EXCEPT ![zip_file] = Append(@, enc)]
    /\ zip_status' = [zip_status EXCEPT ![zip_file] = "failed"]
    /\ zip_k' = zip_k + 1
    /\ UNCHANGED <<tree_zips, holds_zip, zip_list, unzip_state, archiveRest>>

\* The loop is at an archive on which the first k encodings were tried.
extracting(k) ==
    /\ unzip_state = "loop"
    /\ zip_k < Len(zip_list)
    /\ tried[zip_file] = SubSeq(Encodings, 1, k)

\* Lines 176-180: utf-8; the handler of line 180 takes UnicodeDecodeError
\* and BadZipFile only.
extract_utf8 ==
    /\ extracting(0)
    /\ \E o \in ExtractOutcomes :
          CASE o = "ok" -> extract_ok("utf-8")
            [] o = "decode_error" -> extract_next("utf-8")
            [] o = "other_error" -> extract_failed("utf-8")

\* Lines 182-186: gbk, inside the first handler; the handler of line 186
\* takes UnicodeDecodeError and BadZipFile only.
extract_gbk ==
    /\ extracting(1)
    /\ \E o \in ExtractOutcomes :
          CASE o = "ok" -> extract_ok("gbk")
            [] o = "decode_error" -> extract_next("gbk")
            [] o = "other_error" -> extract_failed("gbk")

\* Lines 188-194: cp437, inside the second handler; every exception is
\* raised again as the failure of the archive.
extract_cp437 ==
    /\ extracting(2)
    /\ \E o \in ExtractOutcomes :
          IF o = "ok" THEN extract_ok("cp437") ELSE extract_failed("cp437")

\* _unzip_files, line 168: the list is exhausted and the stage reports.
unzip_over ==
    /\ unzip_state = "loop"
    /\ zip_k = Len(zip_list)
    /\ unzip_state' = "over"
    /\ UNCHANGED <<tree_zips, holds_zip, zip_list, zip_k, tried, zip_status,
                   archiveRest>>

NextArchives ==
    \/ unzip_list
    \/ extract_utf8
    \/ extract_gbk
    \/ extract_cp437
    \/ unzip_over

SpecArchives == InitArchives /\ [][NextArchives]_vars

(***************************************************************************)
(* parse_sql_script, lines 679-718.  The text is a sequence of characters. *)
(* The function is computed on the positions of the characters, so that    *)
(* every character of a returned statement is known by its place in the    *)
(* text; the position 0 stands for a newline that the join of line 712     *)
(* puts between two lines.                                                 *)
(***************************************************************************)
SqlChars == {"a", "#", ";", "\n", " "}

Whitespace == {" ", "\n"}

char_at(text, p) == IF p = 0 THEN "\n" ELSE text[p]

\* str.split(sep) on the positions ps of text.
RECURSIVE split(_, _, _)
split(text, ps, sep) ==
    LET hits == {i \in DOMAIN ps : char_at(text, ps[i]) = sep}
    IN  IF hits = {} THEN <<ps>>
        ELSE LET i == CHOOSE h \in hits : \A g \in hits : h <= g
             IN  <<SubSeq(ps, 1, i - 1)>> \o split(text, SubSeq(ps, i + 1, Len(ps)), sep)

\* str.strip() on the positions ps of text.
strip(text, ps) ==
    LET solid == {i \in DOMAIN ps : char_at(text, ps[i]) \notin Whitespace}
    IN  IF solid = {} THEN <<>>
        ELSE SubSeq(ps, CHOOSE i \in solid : \A j \in solid : i <= j,
                        CHOOSE i \in solid : \A j \in solid : j <= i)

\* Lines 703-708: the lines of a part, stripped, without the empty ones and
\* the ones that start with '#'.
kept_lines(text, part) ==
    LET raw == split(text, part, "\n")
        stripped == [i \in DOMAIN raw |-> strip(text, raw[i])]
    IN  SelectSeq(stripped, LAMBDA l : l # <<>> /\ char_at(text, l[1]) # "#")

\* Line 712: '\n'.join(lines).
RECURSIVE join(_)
join(lines) ==
    IF Len(lines) = 0 THEN <<>>
    ELSE IF Len(lines) = 1 THEN lines[1]
    ELSE lines[1] \o <<0>> \o join(Tail(lines))

\* Lines 710-716: the statement of a part, <<>> when nothing is left of it.
cleaned_sql(text, part) == strip(text, join(kept_lines(text, part)))

\* Lines 693-718 on positions: the parts between the semicolons, each
\* cleaned, without the parts of which nothing is left.
statement_origins(text) ==
    IF strip(text, [i \in DOMAIN text |-> i]) = <<>> THEN <<>>
    ELSE LET parts == split(text, [i \in DOMAIN text |-> i], ";")
             sqls == [i \in DOMAIN parts |-> cleaned_sql(text, parts[i])]
         IN  SelectSeq(sqls, LAMBDA c : c # <<>>)

\* A script text of up to MaxChars characters is about to be parsed.
InitScript ==
    /\ InitRun
    /\ scriptOthersIdle
    /\ sql_text \in UNION {[1..n -> SqlChars] : n \in 0..MaxChars}
    /\ parsed_sqls = <<>>
    /\ origins = <<>>
    /\ sql_state = "text"

\* parse_sql_script(sql_text) returns its list of statements.
parse_sql_script ==
    /\ sql_state = "text"
    /\ origins' = statement_origins(sql_text)
    /\ parsed_sqls' = [i \in DOMAIN origins' |->
                          [j \in DOMAIN origins'[i] |-> char_at(sql_text, origins'[i][j])]]
    /\ sql_state' = "parsed"
    /\ UNCHANGED <<sql_text, scriptRest>>

NextScript == parse_sql_script

SpecScript == InitScript /\ [][NextScript]_vars

(***************************************************************************)
(* _find_data_directories and the scan of _process_csv_files on a working  *)
(* tree whose tag directories may lie inside each other.  A directory is   *)
(* its path, <<"4G">> or <<"4G", "5g">>; a file is <<directory, number>>.  *)
(***************************************************************************)
TreePaths ==
    {<<a>> : a \in DirNames} \cup {<<a, b>> : <<a, b>> \in {ab \in DirNames \X DirNames : ab[1] # ab[2]}}

\* p is q or lies above q.
above(p, q) == Len(p) <= Len(q) /\ SubSeq(q, 1, Len(p)) = p

InitTree ==
    /\ InitRun
    /\ treeOthersIdle
    /\ tree_dirs \in {ds \in SUBSET TreePaths :
                         \A p \in ds : Len(p) = 2 => <<p[1]>> \in ds}
    /\ tree_files \in [tree_dirs -> 0..MaxPerDir]
    /\ scan_dirs = <<>>
    /\ scan_k = 0
    /\ scanned = <<>>
    /\ scan_state = "find"

\* rglob('*') lists a directory before what lies in it; the model takes the
\* directories of one level in the order of their names.
rglob_before(p, q) ==
    \/ p # q /\ above(p, q)
    \/ ~above(q, p) /\ p[1] = "4G" /\ q[1] = "5g"

RECURSIVE rglob_dirs(_)
rglob_dirs(ds) ==
    IF ds = {} THEN <<>>
    ELSE LET first == CHOOSE p \in ds : \A q \in ds \ {p} : rglob_before(p, q)
         IN  <<first>> \o rglob_dirs(ds \ {first})

\* _find_data_directories, lines 607-619, on the tree: the candidates in
\* rglob order, folded into the dict by table name.
find_tree_dirs ==
    /\ scan_state = "find"
    /\ LET paths == rglob_dirs(tree_dirs)
           names == [k \in DOMAIN paths |-> paths[k][Len(paths[k])]]
           kept == tagged_dirs(names, Len(names))
       IN  scan_dirs' = [k \in DOMAIN kept |->
                            [table |-> kept[k].table, path |-> paths[kept[k].subdir]]]
    /\ scan_state' = "scan"
    /\ UNCHANGED <<tree_dirs, tree_files, scan_k, scanned, treeRest>>

\* _scan_files, lines 196-200: directory.rglob("*.csv"), the files in the
\* directory and in every directory below it.
_scan_files(directory) ==
    {<<p, n>> : p \in {q \in tree_dirs : above(directory, q)}, n \in 1..MaxPerDir}
       \cap {f \in TreePaths \X (1..MaxPerDir) : f[1] \in tree_dirs /\ f[2] <= tree_files[f[1]]}

\* _process_csv_files, lines 643-651: the files of the next data directory.
scan_tree_dir ==
    /\ scan_state = "scan"
    /\ scan_k < Len(scan_dirs)
    /\ scanned' = Append(scanned, _scan_files(scan_dirs[scan_k + 1].path))
    /\ scan_k' = scan_k + 1
    /\ UNCHANGED <<tree_dirs, tree_files, scan_dirs, scan_state, treeRest>>

\* The loop over the data directories is over.
scan_tree_over ==
    /\ scan_state = "scan"
    /\ scan_k = Len(scan_dirs)
    /\ scan_state' = "over"
    /\ UNCHANGED <<tree_dirs, tree_files, scan_dirs, scan_k, scanned, treeRest>>

NextTree ==
    \/ find_tree_dirs
    \/ scan_tree_dir
    \/ scan_tree_over

SpecTree == InitTree /\ [][NextTree]_vars

(***************************************************************************)
(* The API layer's global task lock under interleavings of upload,         *)
(* /api/task/lock, /api/process/start and /api/script/execute requests and *)
(* of the background threads they start.  A handler runs on the event loop *)
(* and is one step up to its await; a thread is one step per write of the  *)
(* shared state.                                                           *)
(***************************************************************************)
SessionIds == {<<"session", n>> : n \in 1..MaxSessions}

\* task_id = f"script_{uuid.uuid4().hex[:8]}": a fresh id per thread.
ScriptId(k) == <<"script", k>>

Unlocked == [locked |-> FALSE, task_id |-> None, stage |-> "None"]

Locked(task_id, stage) == [locked |-> TRUE, task_id |-> task_id, stage |-> stage]

NoThread == [task_id |-> None, at |-> "none", status |-> "none"]

\* The history file outlives the server: records of earlier tasks may exist.
InitApi ==
    /\ InitRun
    /\ apiOthersIdle
    /\ global_task_lock = Unlocked
    /\ upload_sessions = {}
    /\ upload_calls = [s \in SessionIds |-> "none"]
    /\ record_status \in [SessionIds -> {"absent", "completed"}]
    /\ threads = [k \in 1..MaxThreads |-> NoThread]

\* Thread(target=...) takes the next thread there is.
FreeThread(k) ==
    /\ k \in 1..MaxThreads
    /\ threads[k].at = "none"
    /\ \A j \in 1..(k - 1) : threads[j].at # "none"

\* upload_files without a known session, lines 169-191: refused while the
\* lock is held, else the new session takes the lock; the handler is then
\* suspended at "await file.read()".
upload_files_new(session_id) ==
    /\ session_id \in SessionIds \ upload_sessions
    /\ record_status[session_id] = "absent"
    /\ upload_calls[session_id] = "none"
    /\ ~global_task_lock.locked
    /\ global_task_lock' = Locked(session_id, "uploading")
    /\ upload_sessions' = upload_sessions \cup {session_id}
    /\ upload_calls' = [upload_calls EXCEPT ![session_id] = "new"]
    /\ UNCHANGED <<record_status, threads, apiRest>>

\* upload_files with a known session, lines 192-198: refused only while the
\* lock is held for another task; the lock is left as it is.
upload_files_append(session_id) ==
    /\ session_id \in upload_sessions
    /\ upload_calls[session_id] = "none"
    /\ ~(global_task_lock.locked /\ global_task_lock.task_id # session_id)
    /\ upload_calls' = [upload_calls EXCEPT ![session_id] = "append"]
    /\ UNCHANGED <<global_task_lock, upload_sessions, record_status, threads, apiRest>>

\* Lines 200-229: the files are saved and the history record is created or
\* updated; the lock stays.
upload_files_saved(session_id) ==
    /\ session_id \in SessionIds
    /\ upload_calls[session_id] # "none"
    /\ record_status' = [record_status EXCEPT ![session_id] =
                            IF @ = "absent" THEN "pending" ELSE @]
    /\ upload_calls' = [upload_calls EXCEPT ![session_id] = "none"]
    /\ UNCHANGED <<global_task_lock, upload_sessions, threads, apiRest>>

\* Lines 230-237: saving raised; a new session gives the lock back.
upload_files_failed(session_id) ==
    /\ session_id \in SessionIds
    /\ upload_calls[session_id] # "none"
    /\ global_task_lock' =
          IF upload_calls[session_id] = "new" THEN Unlocked ELSE global_task_lock
    /\ upload_calls' = [upload_calls EXCEPT ![session_id] = "none"]
    /\ UNCHANGED <<upload_sessions, record_status, threads, apiRest>>

\* lock_task, lines 345-356.
lock_task(task_id) ==
    /\ task_id \in SessionIds
    /\ ~global_task_lock.locked
    /\ global_task_lock' = Locked(task_id, "uploading")
    /\ UNCHANGED <<upload_sessions, upload_calls, record_status, threads, apiRest>>

\* start_processing, lines 380-455: the record must exist and must not be
\* "processing"; the lock is written without being read.
start_processing(task_id) ==
    /\ task_id \in SessionIds
    /\ record_status[task_id] \notin {"absent", "processing"}
    /\ \E k \in 1..MaxThreads :
          /\ FreeThread(k)
          /\ threads' = [threads EXCEPT ![k] =
                            [task_id |-> task_id, at |-> "process", status |-> "none"]]
    /\ record_status' = [record_status EXCEPT ![task_id] = "processing"]
    /\ global_task_lock' = Locked(task_id, "processing")
    /\ UNCHANGED <<upload_sessions, upload_calls, apiRest>>

\* execute_script, lines 1174-1242: refused while the lock is held.
execute_script ==
    /\ ~global_task_lock.locked
    /\ \E k \in 1..MaxThreads :
          /\ FreeThread(k)
          /\ threads' = [threads EXCEPT ![k] =
                            [task_id |-> ScriptId(k), at |-> "script", status |-> "none"]]
          /\ global_task_lock' = Locked(ScriptId(k), "processing")
    /\ UNCHANGED <<upload_sessions, upload_calls, record_status, apiRest>>

\* run_processing, lines 421-425: process() returned its result.
run_processing_returned(k, success) ==
    /\ threads[k].at = "process"
    /\ threads' = [threads EXCEPT ![k].at = "update",
                                  ![k].status = IF success THEN "completed" ELSE "failed"]
    /\ UNCHANGED <<global_task_lock, upload_sessions, upload_calls, record_status, apiRest>>

\* Lines 421-422 raised: on to the except clause.
run_processing_raised(k) ==
    /\ threads[k].at = "process"
    /\ threads' = [threads EXCEPT ![k].at = "except", ![k].status = "failed"]
    /\ UNCHANGED <<global_task_lock, upload_sessions, upload_calls, record_status, apiRest>>

\* history_manager.update(task_id, status=...), lines 426-432 and 442: the
\* record, if there is one, takes the status.
history_updated(k) ==
    [record_status EXCEPT ![threads[k].task_id] =
        IF @ = "absent" THEN @ ELSE threads[k].status]

\* Line 426: the update returned.
run_processing_update(k) ==
    /\ threads[k].at = "update"
    /\ record_status' = history_updated(k)
    /\ threads' = [threads EXCEPT ![k].at = "unlock"]
    /\ UNCHANGED <<global_task_lock, upload_sessions, upload_calls, apiRest>>

\* Line 426: the update raised while writing the history file: on to the
\* except clause.
run_processing_update_raised(k) ==
    /\ threads[k].at = "update"
    /\ threads' = [threads EXCEPT ![k].at = "except", ![k].status = "failed"]
    /\ UNCHANGED <<global_task_lock, upload_sessions, upload_calls, record_status, apiRest>>

\* Lines 434-440: the log is read back and the lock is given up, whoever
\* holds it; the thread ends.
run_processing_unlock(k) ==
    /\ threads[k].at = "unlock"
    /\ global_task_lock' = Unlocked
    /\ threads' = [threads EXCEPT ![k].at = "dead"]
    /\ UNCHANGED <<upload_sessions, upload_calls, record_status, apiRest>>

\* Line 442, in the except clause: the record is set to failed.
run_processing_except(k) ==
    /\ threads[k].at = "except"
    /\ record_status' = history_updated(k)
    /\ threads' = [threads EXCEPT ![k].at = "except_unlock"]
    /\ UNCHANGED <<global_task_lock, upload_sessions, upload_calls, apiRest>>

\* Lines 444-450: the log is read back and the lock is given up; the thread
\* ends.
run_processing_except_unlock(k) ==
    /\ threads[k].at = "except_unlock"
    /\ global_task_lock' = Unlocked
    /\ threads' = [threads EXCEPT ![k].at = "dead"]
    /\ UNCHANGED <<upload_sessions, upload_calls, record_status, apiRest>>

\* Line 442 raised inside the except clause: the exception leaves the thread
\* before lines 447-450.
run_processing_except_raised(k) ==
    /\ threads[k].at = "except"
    /\ threads' = [threads EXCEPT ![k].at = "dead"]
    /\ UNCHANGED <<global_task_lock, upload_sessions, upload_calls, record_status, apiRest>>

\* run_script, lines 1210-1231: the script ran or raised into the except
\* clause; either way the finally clause is next.
run_script_body(k) ==
    /\ threads[k].at = "script"
    /\ \E status \in {"completed", "failed"} :
          threads' = [threads EXCEPT ![k].at = "finally", ![k].status = status]
    /\ UNCHANGED <<global_task_lock, upload_sessions, upload_calls, record_status, apiRest>>

\* Lines 1232-1237: the finally clause gives the lock up; the thread ends.
run_script_finally(k) ==
    /\ threads[k].at = "finally"
    /\ global_task_lock' = Unlocked
    /\ threads' = [threads EXCEPT ![k].at = "dead"]
    /\ UNCHANGED <<upload_sessions, upload_calls, record_status, apiRest>>

\* One statement of a background thread.
ThreadStep(k) ==
    \/ \E success \in BOOLEAN : run_processing_returned(k, success)
    \/ run_processing_raised(k)
    \/ run_processing_update(k)
    \/ run_processing_update_raised(k)
    \/ run_processing_unlock(k)
    \/ run_processing_except(k)
    \/ run_processing_except_unlock(k)
    \/ run_processing_except_raised(k)
    \/ run_script_body(k)
    \/ run_script_finally(k)

NextApi ==
    \/ \E session_id \in SessionIds : upload_files_new(session_id)
    \/ \E session_id \in SessionIds : upload_files_append(session_id)
    \/ \E session_id \in SessionIds : upload_files_saved(session_id)
    \/ \E session_id \in SessionIds : upload_files_failed(session_id)
    \/ \E task_id \in SessionIds : lock_task(task_id)
    \/ \E task_id \in SessionIds : start_processing(task_id)
    \/ execute_script
    \/ \E k \in 1..MaxThreads : ThreadStep(k)

SpecApi == InitApi /\ [][NextApi]_vars

\* A started thread keeps running: each of its statements is executed in the
\* end.  Requests may or may not arrive.
SpecApiLive ==
    InitApi /\ [][NextApi]_vars /\ \A k \in 1..MaxThreads : WF_vars(ThreadStep(k))

(***************************************************************************)
(* HistoryManager on one history file with two callers: the background     *)
(* thread, which updates the status of its own record, and the request     *)
(* handlers, which create, update, delete and clear other records.  Every  *)
(* call is _load, a change of the loaded list, _save; the callers are      *)
(* interleaved between the two.                                            *)
(***************************************************************************)
Callers == {"thread", "handler"}

\* The record the background thread works for.
ThreadTask == <<"session", 1>>

OtherTasks == SessionIds \ {ThreadTask}

NoRecord == [status |-> "absent", file_count |-> 0]

NoCall == [op |-> "none", id |-> None, status |-> "none", file_count |-> 0, records |-> <<>>]

InitHistory ==
    /\ InitRun
    /\ historyOthersIdle
    /\ history_file \in
          {f \in [SessionIds -> [status : {"absent", "pending", "processing"},
                                file_count : 0..MaxUploads]] :
              /\ f[ThreadTask].status = "processing"
              /\ \A id \in SessionIds : f[id].status = "absent" <=> f[id].file_count = 0
              /\ \A id \in OtherTasks : f[id].status # "processing"}
    /\ history_calls = [c \in Callers |-> NoCall]
    /\ settled = [id \in SessionIds |-> "none"]
    /\ made = {}

\* HistoryManager.get, lines 109-116.
get(record_id) == history_file[record_id]

\* HistoryManager._load, lines 48-53, as the first statement of a call.
_load(c, op, record_id, status, file_count) ==
    /\ history_calls[c].op = "none"
    /\ history_calls' = [history_calls EXCEPT ![c] =
          [op |-> op, id |-> record_id, status |-> status,
           file_count |-> file_count, records |-> history_file]]

\* HistoryManager._save, lines 55-57: the file becomes the caller's list.
_save(c, records) ==
    /\ history_file' = records
    /\ history_calls' = [history_calls EXCEPT ![c] = NoCall]

\* The call returns without writing.
returned_unsaved(c) ==
    /\ history_calls' = [history_calls EXCEPT ![c] = NoCall]
    /\ UNCHANGED history_file

\* run_processing, main.py lines 426-432 and 442: update(task_id, status=...),
\* line 98 of history.py.
thread_update_load(status) ==
    /\ _load("thread", "update", ThreadTask, status, 0)
    /\ settled' = [settled EXCEPT ![ThreadTask] = "none"]
    /\ UNCHANGED <<history_file, made, historyRest>>

\* HistoryManager.update, lines 100-107, from the thread.
thread_update_save ==
    /\ history_calls["thread"].op = "update"
    /\ LET call == history_calls["thread"]
       IN  IF call.records[call.id].status = "absent"
           THEN /\ returned_unsaved("thread")
                /\ UNCHANGED settled
           ELSE /\ _save("thread", [call.records EXCEPT ![call.id].status = call.status])
                /\ settled' = [settled EXCEPT ![call.id] = call.status]
    /\ UNCHANGED <<made, historyRest>>

\* upload_files, main.py lines 215-217: no record yet, so create(...), line 73
\* of history.py.
create_load(record_id, file_count) ==
    /\ record_id \in OtherTasks
    /\ get(record_id).status = "absent"
    /\ _load("handler", "create", record_id, "pending", file_count)
    /\ UNCHANGED <<history_file, settled, made, historyRest>>

\* HistoryManager.create, lines 74-80.
create_save ==
    /\ history_calls["handler"].op = "create"
    /\ LET call == history_calls["handler"]
       IN  _save("handler", [call.records EXCEPT ![call.id] =
                                [status |-> "pending", file_count |-> call.file_count]])
    /\ made' = made \cup {history_calls["handler"].id}
    /\ UNCHANGED <<settled, historyRest>>

\* upload_files, main.py line 219, and complete_upload_session, line 251:
\* update(session_id, file_count=...).
handler_update_load(record_id, file_count) ==
    /\ record_id \in OtherTasks
    /\ _load("handler", "update", record_id, "none", file_count)
    /\ UNCHANGED <<history_file, settled, made, historyRest>>

\* HistoryManager.update, lines 100-107, from a handler.
handler_update_save ==
    /\ history_calls["handler"].op = "update"
    /\ LET call == history_calls["handler"]
       IN  IF call.records[call.id].status = "absent"
           THEN returned_unsaved("handler")
           ELSE _save("handler", [call.records EXCEPT ![call.id].file_count = call.file_count])
    /\ UNCHANGED <<settled, made, historyRest>>

\* delete_history, main.py line 507: delete(record_id), line 150.
delete_load(record_id) ==
    /\ record_id \in OtherTasks
    /\ _load("handler", "delete", record_id, "none", 0)
    /\ UNCHANGED <<history_file, settled, made, historyRest>>

\* HistoryManager.delete, lines 160-186.
delete_save ==
    /\ history_calls["handler"].op = "delete"
    /\ LET call == history_calls["handler"]
       IN  IF call.records[call.id].status = "absent"
           THEN returned_unsaved("handler")
           ELSE _save("handler", [call.records EXCEPT ![call.id] = NoRecord])
    /\ made' = made \ {history_calls["handler"].id}
    /\ UNCHANGED <<settled, historyRest>>

\* clear_history, main.py line 515: clear(), line 190.
clear_load ==
    /\ _load("handler", "clear", None, "none", 0)
    /\ UNCHANGED <<history_file, settled, made, historyRest>>

\* HistoryManager.clear, lines 191-221: every record goes.
clear_save ==
    /\ history_calls["handler"].op = "clear"
    /\ _save("handler", [id \in SessionIds |-> NoRecord])
    /\ made' = {}
    /\ settled' = [id \in SessionIds |-> "none"]
    /\ UNCHANGED historyRest

NextHistory ==
    \/ \E status \in {"completed", "failed"} : thread_update_load(status)
    \/ thread_update_save
    \/ \E record_id \in OtherTasks, file_count \in 1..MaxUploads :
          create_load(record_id, file_count)
    \/ create_save
    \/ \E record_id \in OtherTasks, file_count \in 1..MaxUploads :
          handler_update_load(record_id, file_count)
    \/ handler_update_save
    \/ \E record_id \in OtherTasks : delete_load(record_id)
    \/ delete_save
    \/ clear_load
    \/ clear_save

SpecHistory == InitHistory /\ [][NextHistory]_vars

(***************************************************************************)
(* Properties.                                                             *)
(***************************************************************************)
\* The stages in the order the specification gives them.
FixedOrder == <<"unzip", "convert", "load", "script">>

OrderIndex(s) == CHOOSE i \in 1..Len(FixedOrder) : FixedOrder[i] = s

\* The number of "enter" events among the first k events of the stage trace.
EntersUpTo(k) == Cardinality({j \in 1..k : stageTrace[j][2] = "enter"})

Returned(s) == \E k \in DOMAIN stageTrace : stageTrace[k] = <<s, "return">>

Raised == \E k \in DOMAIN stageTrace : stageTrace[k][2] = "raise"

AttemptsOf(s) == {a \in DOMAIN attempts : attempts[a][1] = s}

FailedOf(s) == {a \in AttemptsOf(s) : attempts[a][3] = "failed"}

LogCount(level, messages) ==
    Cardinality({k \in DOMAIN logs : logs[k][1] = level /\ logs[k][2] \in messages})

DbEvents(op) == {k \in DOMAIN dbTrace : dbTrace[k][1] = op}

(***************************************************************************)
(* C1: in every run the stages start in the order unzip, convert, load,    *)
(* script; a stage starts only right after the previous one has returned,  *)
(* no stage is entered twice, and no item of a stage is attempted before   *)
(* an item of an earlier stage.                                            *)
(***************************************************************************)
C1_StagesInOrder ==
    /\ \A k \in DOMAIN stageTrace :
          stageTrace[k][2] = "enter" =>
             LET i == EntersUpTo(k) IN
             /\ i <= Len(FixedOrder)
             /\ stageTrace[k][1] = FixedOrder[i]
             /\ IF i = 1 THEN k = 1
                ELSE stageTrace[k - 1] = <<FixedOrder[i - 1], "return">>
    /\ \A a, b \in DOMAIN attempts :
          a < b => OrderIndex(attempts[a][1]) <= OrderIndex(attempts[b][1])

\* A run in which all four stages had work to do and returned.
C1_Witness ==
    /\ pc = "done"
    /\ exc = "none"
    /\ Len(stageTrace) = 8
    /\ found["unzip"] > 0
    /\ found["script"] > 0

(***************************************************************************)
(* C2: when a stage raises an exception that no per-item handler catches,  *)
(* nothing of process() runs a stage after it, and the result returned has *)
(* success false and the message of that exception as its error.           *)
(***************************************************************************)
StageMessages ==
    [unzip |-> {"unzip: discovery failed"},
     convert |-> {"convert: discovery failed"},
     load |-> {"load: discovery failed", "load: drop_table failed",
               "load: connect failed"},
     script |-> {"script: read failed", "script: connect failed",
                 "script: commit failed"}]

C2_FatalAborts ==
    /\ \A k \in DOMAIN stageTrace :
          stageTrace[k][2] = "raise" => k = Len(stageTrace)
    /\ (pc = "done" /\ Raised) =>
          /\ "success" \in DOMAIN results
          /\ results["success"] = "False"
          /\ "error" \in DOMAIN results
          /\ results["error"] \in StageMessages[stageTrace[Len(stageTrace)][1]]
          /\ results["error"] = exc

\* A run that the load stage aborted after an earlier stage had work.
C2_Witness ==
    /\ pc = "done"
    /\ "error" \in DOMAIN results
    /\ results["error"] = "load: drop_table failed"
    /\ found["unzip"] + found["convert"] > 0
    /\ Returned("convert")
    /\ ~Returned("load")

(***************************************************************************)
(* C3: the result process() returns always has the success flag and the    *)
(* elapsed time; a failed run has the error message besides, a successful  *)
(* run has no error.                                                       *)
(***************************************************************************)
C3_Original ==
    pc = "done" =>
       /\ "success" \in DOMAIN results
       /\ "elapsed_time" \in DOMAIN results
       /\ results["success"] = "False" => "error" \in DOMAIN results
       /\ results["success"] = "True" => "error" \notin DOMAIN results

ItemStages == {"unzip", "convert", "load"}

ItemErrors ==
    [unzip |-> {"unzip_failed"},
     convert |-> {"excel_failed"},
     load |-> {"csv_failed: unreadable", "csv_failed: too few columns",
               "csv_failed: create_table failed",
               "csv_failed: support check failed", "csv_failed: insert failed"}]

C5_ItemFailuresContained ==
    /\ \A s \in ItemStages :
          /\ LogCount("ERROR", ItemErrors[s]) = Cardinality(FailedOf(s))
          /\ Returned(s) => Cardinality(AttemptsOf(s)) = found[s]
    /\ Raised => exc \in StageMessages[stageTrace[Len(stageTrace)][1]]
    /\ exc = "none" \/ Raised

\* A successful run in which the first of two delimited files failed and
\* the second was loaded.
C5_Witness ==
    /\ pc = "done"
    /\ "success" \in DOMAIN results
    /\ results["success"] = "True"
    /\ Len(attempts) = 2
    /\ attempts[1] = <<"load", <<1, 1>>, "failed">>
    /\ attempts[2] = <<"load", <<1, 2>>, "ok">>

(***************************************************************************)
(* C6 as stated: within one workbook a sheet whose conversion fails is     *)
(* skipped and every other sheet that is not excluded, the later ones      *)
(* included, is still written to its output file.                          *)
(***************************************************************************)
SheetFailed(f) == tasks[f].state = "done" /\ tasks[f].error = "sheet"

ScriptConnects == {k \in DbEvents("connect") : dbTrace[k][2] = "script"}

ScriptCloses == {k \in DbEvents("close") : dbTrace[k][2] = "script"}

Executes == SelectSeq(dbTrace, LAMBDA e : e[1] = "execute")

C7_StatementsInOrder ==
    /\ \A i \in DOMAIN Executes : Executes[i][2] = i
    /\ Len(Executes) = sql_i
    /\ Len(Executes) <= valid_sqls
    /\ Returned("script") => Len(Executes) = valid_sqls
    /\ Cardinality(ScriptConnects) <= 1
    /\ \A k \in DbEvents("execute") :
          /\ \E c \in ScriptConnects : c < k /\ dbTrace[c][3] = "ok"
          /\ \A c \in ScriptCloses : k < c
    /\ LogCount("ERROR", {"sql_failed"})
          = Cardinality({i \in DOMAIN Executes : Executes[i][3] = "err"})
    /\ \A i \in DOMAIN Executes :
          Executes[i][3] = "err" =>
             \E k \in DOMAIN logs : logs[k] = <<"ERROR", "sql_failed", i>>

\* The first of two statements failed and the second was executed.
C7_Witness ==
    /\ Returned("script")
    /\ Len(Executes) = 2
    /\ Executes[1][3] = "err"
    /\ Executes[2][3] = "ok"

(***************************************************************************)
(* C8: a script with at least one statement is committed exactly once per  *)
(* execution, after the last statement was attempted and before the        *)
(* connection is closed, whether no, some or all statements failed; no     *)
(* rollback is issued.                                                     *)
(***************************************************************************)
C8_CommitOnce ==
    /\ Cardinality(DbEvents("commit")) <= 1
    /\ DbEvents("rollback") = {}
    /\ \A c \in DbEvents("commit") :
          /\ Cardinality({k \in DbEvents("execute") : k < c}) = valid_sqls
          /\ valid_sqls >= 1
          /\ \A k \in DbEvents("execute") : k < c
          /\ \A k \in ScriptCloses : c < k
    /\ ScriptCloses # {} => Cardinality(DbEvents("commit")) = 1
    /\ (Returned("script") /\ valid_sqls >= 1) => ScriptCloses # {}

\* A script of two statements that both failed was committed.
C8_Witness ==
    /\ pc = "done"
    /\ valid_sqls = 2
    /\ executed_count = 0
    /\ Cardinality(DbEvents("commit")) = 1
    /\ Returned("script")

(***************************************************************************)
(* C9: once the fast path was found unsupported, or its check or a fast    *)
(* load failed, no later load of the run, in the same or another data      *)
(* directory, tries the fast path: the supported flag does not become true *)
(* again and every later load is a batched insert.                         *)
(***************************************************************************)
Downgrading(e) ==
    \/ e[1] = "check" /\ e[3] \in {"no", "err"}
    \/ e[1] = "load_fast" /\ e[3] = "err"

Downgraded == \E k \in DOMAIN dbTrace : Downgrading(dbTrace[k])

C9_DowngradeIsPermanent ==
    /\ \A i, j \in DOMAIN dbTrace :
          (i < j /\ Downgrading(dbTrace[i])) => dbTrace[j][1] # "load_fast"
    /\ Downgraded => _load_data_supported # "True"
    /\ _load_data_supported = "False" => Downgraded
    /\ (Downgraded /\ pc = "load_check") => _load_data_checked

\* A fast load failed in the first directory and a file of the second
\* directory was loaded by a batched insert.
C9_Witness ==
    /\ \E i, j \in DOMAIN dbTrace :
          /\ i < j
          /\ dbTrace[i] = <<"load_fast", "4G_UD", "err">>
          /\ dbTrace[j] = <<"insert", "5G_UD", "ok">>
    /\ _load_data_supported = "False"

(***************************************************************************)
(* C10: in a run with at least one load on the fallback path the downgrade *)
(* is logged exactly once, at or before the first fallback load, whether   *)
(* the support check said unsupported, the support check raised or a fast  *)
(* load raised.                                                            *)
(***************************************************************************)
DowngradeLogs ==
    LogCount("WARN", {"downgrade: unsupported", "downgrade: load failed"})

C10_Original ==
    DbEvents("insert") # {} => DowngradeLogs = 1

(***************************************************************************)
(* C11: for every data directory the drop of its destination table comes   *)
(* before any create-table and any insertion for that table and before the *)
(* first of its files is read, and from the drop on the table, if it       *)
(* exists, holds only rows that files of this directory inserted in this   *)
(* run.                                                                    *)
(***************************************************************************)
Dropped(t) == \E k \in DOMAIN dbTrace : dbTrace[k] = <<"drop", t, "ok">>

LoadingFiles == pc \in {"load_connect", "load_file", "load_read", "load_create",
                        "load_check", "load_fast", "load_fallback"}

C11_DropBeforeUse ==
    /\ \A k \in DOMAIN dbTrace :
          dbTrace[k][1] \in {"create", "load_fast", "insert"} =>
             \E j \in 1..(k - 1) : dbTrace[j] = <<"drop", dbTrace[k][2], "ok">>
    /\ \A a \in AttemptsOf("load") : Dropped(data_dirs[attempts[a][2][1]].table)
    /\ LoadingFiles => Dropped(table_name)
    /\ \A d \in DOMAIN data_dirs :
          (Dropped(data_dirs[d].table) /\ data_dirs[d].table \in DOMAIN tables) =>
             tables[data_dirs[d].table].rows \subseteq {<<d, i>> : i \in 1..MaxItems}

\* The table that held rows of an earlier run was dropped, created again and
\* loaded with a file of this run.
C11_Witness ==
    /\ Returned("load")
    /\ "4G_UD" \in DOMAIN tables
    /\ tables["4G_UD"].rows = {<<1, 1>>}
    /\ \E k \in DbEvents("create") : dbTrace[k] = <<"create", "4G_UD", "ok">>

(***************************************************************************)
(* C12: for each data directory the create-table operation is issued at    *)
(* most once in a run; a file that comes after the file that created the   *)
(* table issues no create-table, also when the insertion of the creating   *)
(* file failed.                                                            *)
(***************************************************************************)
CreatesOf(t) == {k \in DbEvents("create") : dbTrace[k] = <<"create", t, "ok">>}

C12_Original ==
    \A d \in DOMAIN data_dirs : Cardinality(CreatesOf(data_dirs[d].table)) <= 1

(***************************************************************************)
(* C13: a data file that was read and whose headers match MinMatch or      *)
(* fewer known columns is passed over with a WARN entry and no ERROR entry *)
(* exactly when its own file name holds the marker 'kpis', and is rejected *)
(* with an ERROR entry otherwise, whatever the names of the directories    *)
(* above it.                                                               *)
(***************************************************************************)
LowMatchDecided ==
    /\ pc = "load_read"
    /\ pc' = "load_file"
    /\ Cardinality(csv_file.cols) <= MinMatch
    /\ logs'[Len(logs')][2] # "csv_failed: unreadable"

C13_Original ==
    [][LowMatchDecided =>
          /\ Len(attempts') = Len(attempts) + 1
          /\ IF csv_file.name_kpis
             THEN /\ attempts'[Len(attempts')][3] = "skipped"
                  /\ logs'[Len(logs')][1] = "WARN"
             ELSE /\ attempts'[Len(attempts')][3] = "failed"
                  /\ logs'[Len(logs')][1] = "ERROR"]_vars

(***************************************************************************)
(* C14: a workbook that was converted without error has, after the convert *)
(* stage, one output file for each of its sheets whose name is not in the  *)
(* exclusion set, and no workbook has an output file for a sheet whose     *)
(* name is in it.                                                          *)
(***************************************************************************)
Converted(f) == tasks[f].state = "done" /\ tasks[f].error = "none"

OutputsOf(f) == {s \in {sheet_names[k] : k \in DOMAIN sheet_names} : <<f, s>> \in written}

C14_OneFilePerSheet ==
    /\ \A f \in DOMAIN tasks :
          Converted(f) =>
             /\ OutputsOf(f) = {sheet_names[k] : k \in DOMAIN sheet_names} \ sheet_filter
             /\ tasks[f].result = Cardinality(OutputsOf(f))
    /\ \A w \in written : w[1] \in DOMAIN tasks /\ w[2] \notin sheet_filter

\* After the convert stage two workbooks are converted, each with its two
\* sheets that are not excluded.
C14_Witness ==
    /\ Returned("convert")
    /\ Len(tasks) = 2
    /\ \A f \in DOMAIN tasks : Converted(f) /\ OutputsOf(f) = {"s1", "s3"}

(***************************************************************************)
(* C15: the convert stage returns, and the load stage discovers its        *)
(* directories and loads its files, only after every submitted conversion  *)
(* task has finished, with or without an error; no conversion task is      *)
(* queued or running while a file is loaded.                               *)
(***************************************************************************)
Unfinished == {f \in DOMAIN tasks : tasks[f].state # "done"}

InLoad == pc \in {"load", "load_find", "load_dir"} \/ LoadingFiles

C15_FanIn ==
    /\ Returned("convert") => Unfinished = {}
    /\ InLoad => Unfinished = {}
    /\ AttemptsOf("load") # {} => Unfinished = {}
    /\ Unfinished # {} => pc = "convert_pool"

\* The load stage has discovered its directories after two conversion
\* tasks, one that failed and one that succeeded, have both finished.
C15_Witness ==
    /\ pc = "load_dir"
    /\ Len(tasks) = 2
    /\ \E f, g \in DOMAIN tasks : tasks[f].error # "none" /\ tasks[g].error = "none"
    /\ Unfinished = {}

(***************************************************************************)
(* C17: when several directories of the working tree carry the same tag,   *)
(* every one of them is a data directory of the table UPPER(tag)_UD, so    *)
(* that the files of each of them are loaded into that table.              *)
(***************************************************************************)
Scanned(k) == \E d \in DOMAIN data_dirs : data_dirs[d].subdir = k

C17_Original ==
    \A k \in DOMAIN found_dirs :
       /\ Scanned(k)
       /\ \A d \in DOMAIN data_dirs :
             data_dirs[d].subdir = k => data_dirs[d].table = upper(found_dirs[k]) \o "_UD"

RowsHanded ==
    /\ Len(dbTrace') = Len(dbTrace) + 1
    /\ dbTrace'[Len(dbTrace')][1] \in {"load_fast", "insert"}

C19_Original ==
    [][RowsHanded => target_cols = tables[table_name].columns]_vars

(***************************************************************************)
(* C16: the in-memory log list, the log file and the calls of the observer *)
(* hold the same entries in the same order, each entry once, also when the *)
(* workers of the convert stage log at the same time as each other or as   *)
(* the thread of process().  The statement is read when no thread is       *)
(* inside log() and no write to the file has failed.                       *)
(***************************************************************************)
Quiescent == \A t \in DOMAIN log_call : log_call[t].step = "idle"

C16_Original ==
    (Quiescent /\ Len(log_file) = Len(logs)) =>
       /\ log_file = logs
       /\ callback = logs

(***************************************************************************)
(* C20: the int and the float coercion return the null marker for the      *)
(* cells that are empty or not numeric, and for no other cell; a cell that *)
(* is a genuine zero ("0", "0.0", "0%", or a percentage that rounds to 0   *)
(* as int) comes back as zero.                                             *)
(***************************************************************************)
NullCell(cell) == numeric_of(cell).nan

ZeroCell(cell) ==
    /\ ~NullCell(cell)
    /\ IF col_type = "int" THEN round(numeric_of(cell).milli) = 0
       ELSE numeric_of(cell).milli = 0

C20_Original ==
    coerced # <<>> =>
       \A i \in DOMAIN series :
          /\ coerced[i] = None <=> NullCell(series[i])
          /\ ZeroCell(series[i]) => coerced[i] \in {<<"0">>, <<"0", ".", "0">>}

(***************************************************************************)
(* C21: the int coercion of a numeric cell yields the whole number nearest *)
(* to its value, the value being divided by 100 for a cell with a percent  *)
(* marker ("95%" yields 1) and for no other cell of the column; thousands  *)
(* separators do not change the result.                                    *)
(***************************************************************************)
\* The value of a numeric cell in thousandths, read off its text: without
\* the separators and the marker, and a hundredth of that with the marker.
ValueOf(cell) ==
    LET n == to_numeric(str_remove(str_remove(cell, ","), "%"))
    IN  IF cell # <<>> /\ cell[Len(cell)] = "%" THEN n.milli \div 100 ELSE n.milli

\* The text is the decimal form of a whole number nearest to milli.
Nearest(text, milli) ==
    /\ text # <<>>
    /\ \A i \in DOMAIN text : text[i] \in Digits
    /\ text = str_of_int(nat_of(text))
    /\ 2 * Thousand * nat_of(text) <= 2 * milli + Thousand
    /\ 2 * milli <= 2 * Thousand * nat_of(text) + Thousand

C21_Original ==
    (coerced # <<>> /\ col_type = "int") =>
       \A i \in DOMAIN series :
          ~NullCell(series[i]) => Nearest(coerced[i], ValueOf(series[i]))

(***************************************************************************)
(* C22: an exception raised while one column of a data file is converted,  *)
(* whatever the declared type of the column, does not fail the file: the   *)
(* column is passed on unmodified, the other columns are still converted   *)
(* and the rows of the file are still loaded.                              *)
(***************************************************************************)
C22_Original ==
    /\ csv_state # "failed"
    /\ \A k \in DOMAIN df_result : df_result[k] # "raised"
    /\ csv_state = "loaded" =>
          \A k \in DOMAIN df_result : df_result[k] \in {"converted", "unmodified"}

(***************************************************************************)
(* C23: when the unzip stage ends, every archive that is in the working    *)
(* tree has had an extraction attempt in the stage, the archives that came *)
(* into the tree by the extraction of another archive included.            *)
(***************************************************************************)
C23_Original ==
    unzip_state = "over" =>
       \A p \in tree_zips : zip_status[p] # "none" /\ tried[p] # <<>>

(***************************************************************************)
(* C24: on each archive the encodings are tried in the order utf-8, gbk,   *)
(* cp437, one only after every earlier one failed; the first that succeeds *)
(* is the last tried, and an archive is reported as failed only after all  *)
(* three were tried, whatever the error of an earlier one was.             *)
(***************************************************************************)
C24_Original ==
    \A p \in DOMAIN tried :
       /\ \E k \in 0..Len(Encodings) : tried[p] = SubSeq(Encodings, 1, k)
       /\ zip_status[p] = "extracted" => tried[p] # <<>>
       /\ zip_status[p] = "failed" => tried[p] = Encodings

(***************************************************************************)
(* C25: the total that the convert stage reports at its end is the number  *)
(* of output files written during the stage, the files of a workbook whose *)
(* later sheet failed included.                                            *)
(***************************************************************************)
C25_Original ==
    \A k \in DOMAIN logs :
       (logs[k][1] = "INFO" /\ logs[k][2] = "excel_total") =>
          /\ logs[k][3] = Cardinality(written)
          /\ total_processed = Cardinality(written)

(***************************************************************************)
(* C26: parse_sql_script returns no empty statement, and no character of a *)
(* comment-only line of the script, a line whose first character that is   *)
(* not blank is '#', is part of a returned statement, also when the        *)
(* comment line holds a ';'.                                               *)
(***************************************************************************)
\* The positions of the line of the script that position p lies in.
LineOf(p) ==
    {q \in DOMAIN sql_text :
        \A r \in DOMAIN sql_text :
           ((p <= r /\ r <= q) \/ (q <= r /\ r <= p)) => sql_text[r] # "\n"}

CommentOnly(p) ==
    /\ sql_text[p] # "\n"
    /\ \E q \in LineOf(p) :
          /\ sql_text[q] = "#"
          /\ \A r \in LineOf(p) : r < q => sql_text[r] = " "

C26_NoEmptyStatement ==
    \A i \in DOMAIN parsed_sqls :
       /\ parsed_sqls[i] # <<>>
       /\ \E j \in DOMAIN parsed_sqls[i] : parsed_sqls[i][j] \notin Whitespace

C26_Original ==
    /\ C26_NoEmptyStatement
    /\ \A i \in DOMAIN origins : \A j \in DOMAIN origins[i] :
          origins[i][j] # 0 => ~CommentOnly(origins[i][j])

(***************************************************************************)
(* C27: in one run a delimited file is loaded into at most one table: the  *)
(* file sets of two different data directories are disjoint, also when one *)
(* tag directory lies inside another (4G/5G/x.csv).                        *)
(***************************************************************************)
C27_Original ==
    \A i, j \in DOMAIN scanned : i # j => scanned[i] \cap scanned[j] = {}

(***************************************************************************)
(* C28: the global task lock gives mutual exclusion under any interleaving *)
(* of upload, lock, start and script requests: at most one task is         *)
(* uploading or processing at a time; while the lock is held for one task  *)
(* no thread is started for another; and the completion of one task never  *)
(* releases a lock held for another task that is still running.            *)
(***************************************************************************)
ThreadRuns(k) == threads[k].at \notin {"none", "dead"}

Busy(task_id) ==
    \/ \E k \in 1..MaxThreads : ThreadRuns(k) /\ threads[k].task_id = task_id
    \/ task_id \in SessionIds /\ upload_calls[task_id] # "none"

BusyTasks == {t \in SessionIds \cup {ScriptId(k) : k \in 1..MaxThreads} : Busy(t)}

HeldFor(task_id) == global_task_lock.locked /\ global_task_lock.task_id = task_id

HeldForOther(task_id) == global_task_lock.locked /\ global_task_lock.task_id # task_id

C28_Original ==
    [][/\ Cardinality(BusyTasks') <= 1
       /\ \A k \in 1..MaxThreads :
             threads[k].at = "none" /\ threads'[k].at # "none"
                => ~HeldForOther(threads'[k].task_id)
       /\ \A k \in 1..MaxThreads :
             /\ ThreadRuns(k) /\ threads'[k].at = "dead"
             /\ HeldForOther(threads[k].task_id)
             /\ Busy(global_task_lock.task_id)
             => global_task_lock' = global_task_lock]_vars

(***************************************************************************)
(* C29: every background run started by /api/process/start or              *)
(* /api/script/execute eventually releases the global task lock: once its  *)
(* thread has ended the lock is not held for its task, whatever process()  *)
(* returned and whichever statement of the thread raised.                  *)
(***************************************************************************)
C29_Original ==
    \A k \in 1..MaxThreads :
        ThreadRuns(k) ~> (threads[k].at = "dead" /\ ~HeldFor(threads[k].task_id))

(***************************************************************************)
(* C30: history writes are never lost under concurrency: after the         *)
(* thread's update(id, status) has returned, get(id) gives that status     *)
(* until another update of the same id, whatever the handlers do to other  *)
(* records meanwhile; and a record a handler has created is not removed by *)
(* a concurrent update of the thread.                                      *)
(***************************************************************************)
C30_Original ==
    /\ \A id \in DOMAIN settled : settled[id] # "none" => get(id).status = settled[id]
    /\ \A id \in made : get(id).status # "absent"

====
